---- MODULE Spec2Model ----
(***************************************************************************)
(* A model of my-clox: the open-addressed hash table (table.c), string     *)
(* interning (object.c), the chunk (chunk.c), the single-pass compiler     *)
(* (compiler.c), the virtual machine (vm.c) and the front end (main.c).    *)
(*                                                                         *)
(* Memory is explicit: `objects` is the heap of ObjString records and an   *)
(* ObjString* is an index into it (NULL is 0).  C arrays are sequences;    *)
(* the C index i is the TLA+ index i + 1.                                  *)
(***************************************************************************)
EXTENDS Integers, Sequences, FiniteSets, TLC

VARIABLES
    objects,    \* the heap of string objects, in allocation order (vm.objects)
    strings,    \* vm.strings, the intern table
    found,      \* SpecIntern: whether the last copyString/takeString found its string interned
    calls,      \* SpecIntern: every call so far, as [chars, obj]: the bytes given, the pointer returned
    hung,       \* TRUE once a probe loop can never end
    tbl,        \* SpecTable: the Table operated on
    tblFrom,    \* SpecTable: the Table that tableAddAll copies from
    shadow,     \* SpecTable: the value last set for each key and not deleted since
    argc,       \* main's argc
    file,       \* the file argv[1] names: [readable, source], source its content
    stdin,      \* the lines not yet read from standard input
    junk,       \* what an int of heap memory nobody has written reads as
    pc,         \* where main, repl, runFile and interpret stand
    exitCode,   \* the exit status of the process, NoExit while it runs
    result,     \* what the last call of interpret returned, "none" before
    stdout,     \* what the process has written to stdout
    stderr,     \* what the process has written to stderr
    source,     \* the const char *source handed to interpret: which of Texts it points to
    scanner,    \* the scanner's position in source
    parser,     \* compiler.c's Parser parser
    current,    \* compiler.c's Compiler *current, the Compiler itself
    compilingChunk, \* the Chunk of interpret, which compilingChunk points to
    cstack,     \* the compiler's call stack: the calls that wait for a callee to return
    vm,         \* vm.c's VM vm: [ip, stack, undefined]; vm.chunk is the Chunk of
                \* interpret, vm.globals is tbl, vm.strings and vm.objects are above
    called,     \* history: what the process was at the last call of interpret
    history,    \* history: the calls of interpret that have returned, in order
    turns       \* history: the steps compile has taken since interpret called it

internVars == <<objects, strings, found, calls, hung>>

tableVars == <<tbl, tblFrom, shadow>>

progVars == <<argc, file, stdin, junk, pc, exitCode, result, stdout, stderr,
              source, scanner, parser, current, compilingChunk, cstack, vm,
              called, history, turns>>

vars == <<objects, strings, found, calls, hung, tbl, tblFrom, shadow,
          argc, file, stdin, junk, pc, exitCode, result, stdout, stderr,
          source, scanner, parser, current, compilingChunk, cstack, vm,
          called, history, turns>>

\* SpecIntern and SpecTable exercise object.c and table.c alone: no process runs
ProgIdle ==
    /\ argc = 0
    /\ file = <<>>
    /\ stdin = <<>>
    /\ junk = 0
    /\ pc = "idle"
    /\ exitCode = 0
    /\ result = "none"
    /\ stdout = <<>>
    /\ stderr = <<>>
    /\ source = 0
    /\ scanner = 0
    /\ parser = <<>>
    /\ current = <<>>
    /\ compilingChunk = <<>>
    /\ cstack = <<>>
    /\ vm = <<>>
    /\ called = <<>>
    /\ history = <<>>
    /\ turns = 0

(***************************************************************************)
(* Bounds.                                                                 *)
(***************************************************************************)
\* SpecIntern draws its byte sequences from the first NumContents of Corpus.
NumContents == 7

\* SpecTable uses the first NumKeys strings of Corpus, interned, as its keys.
NumKeys == 7

\* SpecProbe uses the first NumProbeKeys strings of KeyCorpus as its keys.
NumProbeKeys == 8

(***************************************************************************)
(* value.h                                                                 *)
(***************************************************************************)
NULL == 0

NIL_VAL == [type |-> "VAL_NIL", as |-> 0]

BOOL_VAL(value) == [type |-> "VAL_BOOL", as |-> IF value THEN 1 ELSE 0]

NUMBER_VAL(value) == [type |-> "VAL_NUMBER", as |-> value]

OBJ_VAL(object) == [type |-> "VAL_OBJ", as |-> object]

IS_NIL(value) == value.type = "VAL_NIL"

(***************************************************************************)
(* value.h, value.c: the number of a Value is a double.  A double is       *)
(* [sign, num, den]: the fraction num/den in lowest terms with its sign    *)
(* (zero has one too), den = 0 for the infinities (num = 1) and for NaN    *)
(* (num = 0).  The whole numbers and fractions the sources at hand reach   *)
(* are exact in a double.                                                  *)
(***************************************************************************)
\* the double that the whole number n is
Double(n) ==
    [sign |-> IF n < 0 THEN -1 ELSE 1, num |-> IF n < 0 THEN -n ELSE n, den |-> 1]

RECURSIVE Gcd(_, _)
Gcd(a, b) == IF b = 0 THEN a ELSE Gcd(b, a % b)

\* the double sign * num / den, den > 0
Ratio(sign, num, den) ==
    [sign |-> sign, num |-> num \div Gcd(num, den), den |-> den \div Gcd(num, den)]

Infinity(sign) == [sign |-> sign, num |-> 1, den |-> 0]

NaN == [sign |-> 1, num |-> 0, den |-> 0]

IsNaN(a) == a.den = 0 /\ a.num = 0

IsInfinite(a) == a.den = 0 /\ a.num = 1

\* -a
Minus(a) == IF IsNaN(a) THEN a ELSE [a EXCEPT !.sign = -@]

\* a + b
Sum(a, b) ==
    IF IsNaN(a) \/ IsNaN(b) THEN NaN
    ELSE IF IsInfinite(a)
         THEN IF IsInfinite(b) /\ b.sign # a.sign THEN NaN ELSE a
    ELSE IF IsInfinite(b) THEN b
    ELSE LET n == a.sign * a.num * b.den + b.sign * b.num * a.den
         IN  IF n = 0
             THEN [sign |-> IF a.sign = -1 /\ b.sign = -1 THEN -1 ELSE 1,
                   num |-> 0, den |-> 1]
             ELSE Ratio(IF n < 0 THEN -1 ELSE 1, IF n < 0 THEN -n ELSE n,
                        a.den * b.den)

\* a * b
Product(a, b) ==
    IF IsNaN(a) \/ IsNaN(b) THEN NaN
    ELSE IF IsInfinite(a) \/ IsInfinite(b)
         THEN IF a.num = 0 \/ b.num = 0 THEN NaN ELSE Infinity(a.sign * b.sign)
    ELSE Ratio(a.sign * b.sign, a.num * b.num, a.den * b.den)

\* a / b
Quotient(a, b) ==
    IF IsNaN(a) \/ IsNaN(b) THEN NaN
    ELSE IF IsInfinite(a)
         THEN IF IsInfinite(b) THEN NaN ELSE Infinity(a.sign * b.sign)
    ELSE IF IsInfinite(b) THEN [sign |-> a.sign * b.sign, num |-> 0, den |-> 1]
    ELSE IF b.num = 0
         THEN IF a.num = 0 THEN NaN ELSE Infinity(a.sign * b.sign)
    ELSE Ratio(a.sign * b.sign, a.num * b.den, a.den * b.num)

\* a < b
Less(a, b) ==
    IF IsNaN(a) \/ IsNaN(b) THEN FALSE
    ELSE IF IsInfinite(a) THEN a.sign = -1 /\ ~(IsInfinite(b) /\ b.sign = -1)
    ELSE IF IsInfinite(b) THEN b.sign = 1
    ELSE a.sign * a.num * b.den < b.sign * b.num * a.den

\* a == b: NaN equals nothing, and the two zeros are equal
Same(a, b) ==
    /\ ~IsNaN(a)
    /\ ~IsNaN(b)
    /\ IsInfinite(a) = IsInfinite(b)
    /\ IF IsInfinite(a) THEN a.sign = b.sign
       ELSE a.sign * a.num * b.den = b.sign * b.num * a.den

IS_BOOL(value) == value.type = "VAL_BOOL"

IS_NUMBER(value) == value.type = "VAL_NUMBER"

IS_OBJ(value) == value.type = "VAL_OBJ"

\* object.h: isObjType(value, OBJ_STRING)
IS_STRING(heap, value) == IS_OBJ(value) /\ heap[value.as].type = "OBJ_STRING"

AS_BOOL(value) == value.as = 1

\* value.c: the variants must be the same; numbers by ==, strings by identity
valuesEqual(a, b) ==
    IF a.type # b.type THEN FALSE
    ELSE IF IS_NUMBER(a) THEN Same(a.as, b.as)
    ELSE IF IS_NIL(a) THEN TRUE
    ELSE a.as = b.as

\* the characters of the bytes 32 .. 126 (a ? for the grave accent, which a
\* string here cannot hold)
Characters ==
    <<" ", "!", "\"", "#", "$", "%", "&", "'", "(", ")", "*", "+", ",", "-", ".", "/",
      "0", "1", "2", "3", "4", "5", "6", "7", "8", "9", ":", ";", "<", "=", ">", "?",
      "@", "A", "B", "C", "D", "E", "F", "G", "H", "I", "J", "K", "L", "M", "N", "O",
      "P", "Q", "R", "S", "T", "U", "V", "W", "X", "Y", "Z", "[", "\\", "]", "^", "_",
      "?", "a", "b", "c", "d", "e", "f", "g", "h", "i", "j", "k", "l", "m", "n", "o",
      "p", "q", "r", "s", "t", "u", "v", "w", "x", "y", "z", "{", "|", "}", "~">>

\* printf("%s", chars): the text of the bytes up to the first 0
RECURSIVE Text(_)
Text(chars) ==
    IF chars = <<>> \/ Head(chars) = 0 THEN ""
    ELSE (IF Head(chars) \in 32..126 THEN Characters[Head(chars) - 31] ELSE "?")
             \o Text(Tail(chars))

\* printf("%g", number).  The digits of a number that is not whole, or that
\* has more than six of them, are not worked out: the text is the fraction.
FormatG(a) ==
    IF IsNaN(a) THEN "nan"
    ELSE (IF a.sign = -1 THEN "-" ELSE "")
             \o (IF IsInfinite(a) THEN "inf"
                 ELSE IF a.den = 1 /\ a.num < 1000000 THEN ToString(a.num)
                 ELSE ToString(a.num) \o "/" \o ToString(a.den))

\* printValue(value), printObject(value): what they write
printValue(heap, value) ==
    IF IS_BOOL(value) THEN (IF AS_BOOL(value) THEN "true" ELSE "false")
    ELSE IF IS_NIL(value) THEN "nil"
    ELSE IF IS_NUMBER(value) THEN FormatG(value.as)
    ELSE Text(heap[value.as].chars)

(***************************************************************************)
(* memory.h                                                                *)
(***************************************************************************)
GROW_CAPACITY(capacity) == IF capacity < 8 THEN 8 ELSE capacity * 2

(***************************************************************************)
(* object.c: hashString is FNV-1a on uint32_t.  A uint32_t is kept as its  *)
(* two 16-bit halves [hi, lo] so that no intermediate product leaves the   *)
(* range of TLC's integers; all arithmetic is modulo 2^32.                *)
(***************************************************************************)
RECURSIVE XorBits(_, _, _)
XorBits(a, b, n) ==
    IF n = 0 THEN 0
    ELSE (((a % 2) + (b % 2)) % 2) + 2 * XorBits(a \div 2, b \div 2, n - 1)

\* a ^ b for two bytes, tabulated
Xor8 == [a \in 0..255 |-> [b \in 0..255 |-> XorBits(a, b, 8)]]

\* hash ^= (uint8_t)key[i]
HashXor(hash, byte) ==
    [hi |-> hash.hi,
     lo |-> ((hash.lo \div 256) * 256) + Xor8[hash.lo % 256][byte]]

\* hash *= 16777619  (0x01000193: high half 256, low half 403)
HashMul(hash) ==
    LET p == hash.lo * 403
    IN  [hi |-> ((hash.hi * 403) + (hash.lo * 256) + (p \div 65536)) % 65536,
         lo |-> p % 65536]

RECURSIVE hashStringFrom(_, _, _, _)
hashStringFrom(key, length, i, hash) ==
    IF i >= length THEN hash
    ELSE hashStringFrom(key, length, i + 1, HashMul(HashXor(hash, key[i + 1])))

\* 2166136261u is 0x811C9DC5: high half 33052, low half 40389
hashString(key, length) ==
    hashStringFrom(key, length, 0, [hi |-> 33052, lo |-> 40389])

\* hash % capacity for a uint32_t hash
HashMod(hash, capacity) ==
    (((hash.hi % capacity) * (65536 % capacity)) + (hash.lo % capacity)) % capacity

(***************************************************************************)
(* table.c                                                                 *)
(***************************************************************************)
EmptyEntry == [key |-> NULL, value |-> NIL_VAL]

initTable == [count |-> 0, capacity |-> 0, entries |-> <<>>]

freeTable(table) == initTable

\* findEntry's probe loop that returns the first tombstone it comes to
RECURSIVE findEntryLoop_StopsAtTombstone(_, _, _, _, _, _, _)
findEntryLoop_StopsAtTombstone(heap, entries, capacity, key, index, tombstone, steps) ==
    IF steps >= capacity THEN -2
    ELSE LET entry == entries[index + 1]
         IN  IF entry.key = NULL
             THEN index
             ELSE IF entry.key = key
                  THEN index
                  ELSE findEntryLoop_StopsAtTombstone(heap, entries, capacity, key,
                                     (index + 1) % capacity, tombstone, steps + 1)

\* The probe loop of findEntry from `index` on, having passed `steps` slots.
\* The result is the C index of the entry returned; -1 is "no tombstone yet",
\* and -2 the loop that never returns (every slot passed, none empty or equal).
RECURSIVE findEntryLoop(_, _, _, _, _, _, _)
findEntryLoop(heap, entries, capacity, key, index, tombstone, steps) ==
    IF steps >= capacity THEN -2
    ELSE LET entry == entries[index + 1]
         IN  IF entry.key = NULL
             THEN IF IS_NIL(entry.value)
                  THEN (IF tombstone # -1 THEN tombstone ELSE index)
                  ELSE findEntryLoop(heap, entries, capacity, key,
                                     (index + 1) % capacity,
                                     IF tombstone = -1 THEN index ELSE tombstone,
                                     steps + 1)
             ELSE IF entry.key = key
                  THEN index
                  ELSE findEntryLoop(heap, entries, capacity, key,
                                     (index + 1) % capacity, tombstone, steps + 1)

findEntry(heap, entries, capacity, key) ==
    findEntryLoop(heap, entries, capacity, key,
                  HashMod(heap[key].hash, capacity), -1, 0)

\* tableGet: [found, value, hang]; value is only written when found.
tableGet(heap, table, key) ==
    IF table.count = 0
    THEN [found |-> FALSE, value |-> NIL_VAL, hang |-> FALSE]
    ELSE LET e == findEntry(heap, table.entries, table.capacity, key)
         IN  IF e = -2
             THEN [found |-> FALSE, value |-> NIL_VAL, hang |-> TRUE]
             ELSE IF table.entries[e + 1].key = NULL
                  THEN [found |-> FALSE, value |-> NIL_VAL, hang |-> FALSE]
                  ELSE [found |-> TRUE, value |-> table.entries[e + 1].value,
                        hang |-> FALSE]

\* The re-insertion loop of adjustCapacity over the old array, from slot i on.
RECURSIVE adjustCapacityLoop(_, _, _, _, _, _)
adjustCapacityLoop(heap, old, entries, capacity, count, i) ==
    IF i >= Len(old) THEN [entries |-> entries, count |-> count]
    ELSE IF old[i + 1].key = NULL
         THEN adjustCapacityLoop(heap, old, entries, capacity, count, i + 1)
         ELSE LET dest == findEntry(heap, entries, capacity, old[i + 1].key)
              IN  adjustCapacityLoop(heap, old,
                      [entries EXCEPT ![dest + 1] = old[i + 1]],
                      capacity, count + 1, i + 1)

\* adjustCapacity that keeps the old count instead of counting the entries
\* it copies
adjustCapacity_KeepsCount(heap, table, capacity) ==
    LET r == adjustCapacityLoop(heap, table.entries,
                                [i \in 1..capacity |-> EmptyEntry], capacity, 0, 0)
    IN  [count |-> table.count, capacity |-> capacity, entries |-> r.entries]

adjustCapacity(heap, table, capacity) ==
    LET r == adjustCapacityLoop(heap, table.entries,
                                [i \in 1..capacity |-> EmptyEntry], capacity, 0, 0)
    IN  [count |-> r.count, capacity |-> capacity, entries |-> r.entries]

\* the load test without TABLE_MAX_LOAD: the table grows only when it is full
OverLoad_Full(count, capacity) == count + 1 > capacity

\* table->count + 1 > table->capacity * TABLE_MAX_LOAD, with TABLE_MAX_LOAD 0.75
OverLoad(count, capacity) == 4 * (count + 1) > 3 * capacity

\* tableSet that counts a key stored in a tombstone as one more entry
tableSet_CountsTombstone(heap, table, key, value) ==
    LET t == IF OverLoad(table.count, table.capacity)
             THEN adjustCapacity(heap, table, GROW_CAPACITY(table.capacity))
             ELSE table
        e == findEntry(heap, t.entries, t.capacity, key)
    IN  IF e = -2
        THEN [table |-> t, isNewKey |-> FALSE, hang |-> TRUE]
        ELSE LET entry == t.entries[e + 1]
                 isNewKey == entry.key = NULL
             IN  [table |->
                     [count |-> IF isNewKey THEN t.count + 1 ELSE t.count,
                      capacity |-> t.capacity,
                      entries |-> [t.entries EXCEPT
                                     ![e + 1] = [key |-> key, value |-> value]]],
                  isNewKey |-> isNewKey,
                  hang |-> FALSE]

\* tableSet: [table, isNewKey, hang]
tableSet(heap, table, key, value) ==
    LET t == IF OverLoad(table.count, table.capacity)
             THEN adjustCapacity(heap, table, GROW_CAPACITY(table.capacity))
             ELSE table
        e == findEntry(heap, t.entries, t.capacity, key)
    IN  IF e = -2
        THEN [table |-> t, isNewKey |-> FALSE, hang |-> TRUE]
        ELSE LET entry == t.entries[e + 1]
                 isNewKey == entry.key = NULL
             IN  [table |->
                     [count |-> IF isNewKey /\ IS_NIL(entry.value)
                                THEN t.count + 1 ELSE t.count,
                      capacity |-> t.capacity,
                      entries |-> [t.entries EXCEPT
                                     ![e + 1] = [key |-> key, value |-> value]]],
                  isNewKey |-> isNewKey,
                  hang |-> FALSE]

\* tableDelete that empties the slot instead of leaving a tombstone
tableDelete_NoTombstone(heap, table, key) ==
    IF table.count = 0
    THEN [table |-> table, existed |-> FALSE, hang |-> FALSE]
    ELSE LET e == findEntry(heap, table.entries, table.capacity, key)
         IN  IF e = -2
             THEN [table |-> table, existed |-> FALSE, hang |-> TRUE]
             ELSE IF table.entries[e + 1].key = NULL
                  THEN [table |-> table, existed |-> FALSE, hang |-> FALSE]
                  ELSE [table |-> [table EXCEPT !.entries[e + 1] = EmptyEntry],
                        existed |-> TRUE, hang |-> FALSE]

\* tableDelete that takes the deleted entry off count
tableDelete_Decrements(heap, table, key) ==
    IF table.count = 0
    THEN [table |-> table, existed |-> FALSE, hang |-> FALSE]
    ELSE LET e == findEntry(heap, table.entries, table.capacity, key)
         IN  IF e = -2
             THEN [table |-> table, existed |-> FALSE, hang |-> TRUE]
             ELSE IF table.entries[e + 1].key = NULL
                  THEN [table |-> table, existed |-> FALSE, hang |-> FALSE]
                  ELSE [table |-> [table EXCEPT
                                     !.entries[e + 1] =
                                         [key |-> NULL, value |-> BOOL_VAL(TRUE)],
                                     !.count = @ - 1],
                        existed |-> TRUE, hang |-> FALSE]

\* tableDelete that leaves count as the number of keys left, tombstones not
\* counted
tableDelete_CountsKeys(heap, table, key) ==
    IF table.count = 0
    THEN [table |-> table, existed |-> FALSE, hang |-> FALSE]
    ELSE LET e == findEntry(heap, table.entries, table.capacity, key)
         IN  IF e = -2
             THEN [table |-> table, existed |-> FALSE, hang |-> TRUE]
             ELSE IF table.entries[e + 1].key = NULL
                  THEN [table |-> table, existed |-> FALSE, hang |-> FALSE]
                  ELSE [table |-> [table EXCEPT
                                     !.entries[e + 1] =
                                         [key |-> NULL, value |-> BOOL_VAL(TRUE)],
                                     !.count =
                                         Cardinality({i \in 1..table.capacity :
                                             /\ i # e + 1
                                             /\ table.entries[i].key # NULL})],
                        existed |-> TRUE, hang |-> FALSE]

\* tableDelete: [table, existed, hang]
tableDelete(heap, table, key) ==
    IF table.count = 0
    THEN [table |-> table, existed |-> FALSE, hang |-> FALSE]
    ELSE LET e == findEntry(heap, table.entries, table.capacity, key)
         IN  IF e = -2
             THEN [table |-> table, existed |-> FALSE, hang |-> TRUE]
             ELSE IF table.entries[e + 1].key = NULL
                  THEN [table |-> table, existed |-> FALSE, hang |-> FALSE]
                  ELSE [table |-> [table EXCEPT
                                     !.entries[e + 1] =
                                         [key |-> NULL, value |-> BOOL_VAL(TRUE)]],
                        existed |-> TRUE, hang |-> FALSE]

\* tableAddAll from slot i of `from` on: [table, hang]
RECURSIVE tableAddAllLoop(_, _, _, _)
tableAddAllLoop(heap, from, to, i) ==
    IF i >= from.capacity THEN [table |-> to, hang |-> FALSE]
    ELSE IF from.entries[i + 1].key = NULL
         THEN tableAddAllLoop(heap, from, to, i + 1)
         ELSE LET r == tableSet(heap, to, from.entries[i + 1].key,
                                from.entries[i + 1].value)
              IN  IF r.hang THEN [table |-> r.table, hang |-> TRUE]
                  ELSE tableAddAllLoop(heap, from, r.table, i + 1)

tableAddAll(heap, from, to) == tableAddAllLoop(heap, from, to, 0)

\* memcmp(key->chars, chars, length) == 0 on two buffers of at least `length` bytes
MemEq(a, b, length) == \A i \in 1..length : a[i] = b[i]

\* tableFindString without the probe: only the home slot is compared.
tableFindString_HomeOnly(heap, table, chars, length, hash) ==
    IF table.count = 0 THEN NULL
    ELSE LET entry == table.entries[HashMod(hash, table.capacity) + 1]
         IN  IF /\ entry.key # NULL
                /\ heap[entry.key].length = length
                /\ heap[entry.key].hash = hash
                /\ MemEq(heap[entry.key].chars, chars, length)
             THEN entry.key
             ELSE NULL

\* The probe loop of tableFindString: the key found, NULL, or -2 (never returns).
RECURSIVE tableFindStringLoop(_, _, _, _, _, _, _)
tableFindStringLoop(heap, table, chars, length, hash, index, steps) ==
    IF steps >= table.capacity THEN -2
    ELSE LET entry == table.entries[index + 1]
         IN  IF entry.key = NULL
             THEN IF IS_NIL(entry.value) THEN NULL
                  ELSE tableFindStringLoop(heap, table, chars, length, hash,
                                           (index + 1) % table.capacity, steps + 1)
             ELSE IF /\ heap[entry.key].length = length
                     /\ heap[entry.key].hash = hash
                     /\ MemEq(heap[entry.key].chars, chars, length)
                  THEN entry.key
                  ELSE tableFindStringLoop(heap, table, chars, length, hash,
                                           (index + 1) % table.capacity, steps + 1)

tableFindString(heap, table, chars, length, hash) ==
    IF table.count = 0 THEN NULL
    ELSE tableFindStringLoop(heap, table, chars, length, hash,
                             HashMod(hash, table.capacity), 0)

(***************************************************************************)
(* object.c: the result of each function is [objects, strings, string,    *)
(* hang]: the heap and the intern table after the call and the pointer     *)
(* returned.                                                               *)
(***************************************************************************)
allocateString(heap, table, chars, length, hash) ==
    LET string == Len(heap) + 1
        heap2 == Append(heap, [type |-> "OBJ_STRING", length |-> length,
                               chars |-> chars, hash |-> hash])
        r == tableSet(heap2, table, string, NIL_VAL)
    IN  [objects |-> heap2, strings |-> r.table, string |-> string,
         hang |-> r.hang]

takeString(heap, table, chars, length) ==
    LET hash == hashString(chars, length)
        interned == tableFindString(heap, table, chars, length, hash)
    IN  IF interned = -2
        THEN [objects |-> heap, strings |-> table, string |-> NULL, hang |-> TRUE]
        ELSE IF interned # NULL
             THEN [objects |-> heap, strings |-> table, string |-> interned,
                   hang |-> FALSE]
             ELSE allocateString(heap, table, chars, length, hash)

\* heapChars is the copy of the first `length` bytes of chars
copyString(heap, table, chars, length) ==
    LET hash == hashString(chars, length)
        interned == tableFindString(heap, table, chars, length, hash)
    IN  IF interned = -2
        THEN [objects |-> heap, strings |-> table, string |-> NULL, hang |-> TRUE]
        ELSE IF interned # NULL
             THEN [objects |-> heap, strings |-> table, string |-> interned,
                   hang |-> FALSE]
             ELSE allocateString(heap, table, SubSeq(chars, 1, length), length, hash)

(***************************************************************************)
(* SpecIntern: initVM, then any sequence of copyString and takeString      *)
(* calls on byte sequences of the corpus.                                  *)
(***************************************************************************)
\* "", "b", "bb" share home slot 5 of 8; "a", "ba" share 4; "ab", "aaa" share 2.
Corpus ==
    << <<>>, <<98>>, <<98, 98>>, <<97>>, <<98, 97>>, <<97, 98>>, <<97, 97>>,
       <<97, 97, 97>>, <<98, 98, 98>>, <<97, 98, 98>> >>

Contents ==
    {Corpus[i] : i \in 1..(IF NumContents < Len(Corpus) THEN NumContents
                           ELSE Len(Corpus))}

InitIntern ==
    /\ objects = <<>>
    /\ strings = initTable
    /\ found = FALSE
    /\ calls = {}
    /\ hung = FALSE
    /\ tbl = initTable
    /\ tblFrom = initTable
    /\ shadow = <<>>
    /\ ProgIdle

CopyString(chars) ==
    /\ ~hung
    /\ \E r \in {copyString(objects, strings, chars, Len(chars))} :
           /\ objects' = r.objects
           /\ strings' = r.strings
           /\ found' = (~r.hang /\ r.string <= Len(objects))
           /\ hung' = r.hang
           /\ calls' = IF r.hang THEN calls
                       ELSE calls \cup {[chars |-> chars, obj |-> r.string]}
           /\ UNCHANGED <<tableVars, progVars>>

TakeString(chars) ==
    /\ ~hung
    /\ \E r \in {takeString(objects, strings, chars, Len(chars))} :
           /\ objects' = r.objects
           /\ strings' = r.strings
           /\ found' = (~r.hang /\ r.string <= Len(objects))
           /\ hung' = r.hang
           /\ calls' = IF r.hang THEN calls
                       ELSE calls \cup {[chars |-> chars, obj |-> r.string]}
           /\ UNCHANGED <<tableVars, progVars>>

NextIntern ==
    \/ \E chars \in Contents : CopyString(chars)
    \/ \E chars \in Contents : TakeString(chars)

SpecIntern == InitIntern /\ [][NextIntern]_vars

(***************************************************************************)
(* SpecTable: a Table under any sequence of initTable, tableSet,           *)
(* tableDelete, tableAddAll and freeTable.  The keys are interned strings: *)
(* the heap and vm.strings are as copyString leaves them after interning   *)
(* the first NumKeys strings of the corpus, and stay so.                   *)
(***************************************************************************)
\* "" and "b" share home slot 5 of 8; the others have the slots 0, 1, 2, 4, 7
\* ("aaa" shares 2 with "ab").
KeyCorpus ==
    << <<97, 98, 98>>, <<97, 98, 97>>, <<97, 98>>, <<97>>, <<>>, <<98>>,
       <<97, 97>>, <<97, 97, 97>>, <<98, 98>> >>

RECURSIVE InternAll(_)
InternAll(n) ==
    IF n = 0 THEN [objects |-> <<>>, strings |-> initTable]
    ELSE LET h == InternAll(n - 1)
             r == copyString(h.objects, h.strings, KeyCorpus[n], Len(KeyCorpus[n]))
         IN  [objects |-> r.objects, strings |-> r.strings]

KeyCount == IF NumKeys < Len(KeyCorpus) THEN NumKeys ELSE Len(KeyCorpus)

Keys == 1..KeyCount

\* the value tableSet is given: true, which is also the value of a tombstone
TableValues == {BOOL_VAL(TRUE)}

Absent == [type |-> "absent", as |-> 0]

\* the table tableAddAll copies from: of the keys 5 and 6 ("" and "b", which
\* share a home slot) the first set to nil (also the value of an empty slot)
\* and the second to the number 1
RECURSIVE BuildFrom(_, _)
BuildFrom(heap, n) ==
    IF n = 0 THEN initTable
    ELSE tableSet(heap, BuildFrom(heap, n - 1), n + 4,
                  IF n = 1 THEN NIL_VAL ELSE NUMBER_VAL(Double(1))).table

InitTable ==
    /\ \E h \in {InternAll(KeyCount)} :
          /\ objects = h.objects
          /\ strings = h.strings
    /\ found = FALSE
    /\ calls = {}
    /\ hung = FALSE
    /\ tbl = initTable
    /\ tblFrom = BuildFrom(objects, 2)
    /\ shadow = [k \in Keys |-> Absent]
    /\ ProgIdle

\* a call of tableSet or tableDelete: what it returned, and the count and the
\* capacity of the table it was given
Call(op, returned) ==
    [op |-> op, returned |-> returned,
     count |-> tbl.count, capacity |-> tbl.capacity]

TableSet(key, value) ==
    /\ ~hung
    /\ \E r \in {tableSet(objects, tbl, key, value)} :
          /\ tbl' = r.table
          /\ hung' = r.hang
          /\ shadow' = IF r.hang THEN shadow ELSE [shadow EXCEPT ![key] = value]
          /\ calls' = IF r.hang THEN calls
                      ELSE {Call("tableSet", r.isNewKey)}
    /\ UNCHANGED <<objects, strings, found, tblFrom, progVars>>

TableDelete(key) ==
    /\ ~hung
    /\ \E r \in {tableDelete(objects, tbl, key)} :
          /\ tbl' = r.table
          /\ hung' = r.hang
          /\ shadow' = IF r.hang THEN shadow ELSE [shadow EXCEPT ![key] = Absent]
          /\ calls' = IF r.hang THEN calls
                      ELSE {Call("tableDelete", r.existed)}
    /\ UNCHANGED <<objects, strings, found, tblFrom, progVars>>

TableAddAll ==
    /\ ~hung
    /\ \E r \in {tableAddAll(objects, tblFrom, tbl)} :
          /\ tbl' = r.table
          /\ hung' = r.hang
          /\ shadow' = IF r.hang THEN shadow
                        ELSE [k \in Keys |->
                                IF tableGet(objects, tblFrom, k).found
                                THEN tableGet(objects, tblFrom, k).value
                                ELSE shadow[k]]
    /\ calls' = {}
    /\ UNCHANGED <<objects, strings, found, tblFrom, progVars>>

TableInit ==
    /\ ~hung
    /\ tbl' = initTable
    /\ shadow' = [k \in Keys |-> Absent]
    /\ calls' = {}
    /\ UNCHANGED <<objects, strings, found, hung, tblFrom, progVars>>

TableFree ==
    /\ ~hung
    /\ tbl' = freeTable(tbl)
    /\ shadow' = [k \in Keys |-> Absent]
    /\ calls' = {}
    /\ UNCHANGED <<objects, strings, found, hung, tblFrom, progVars>>

NextTable ==
    \/ \E key \in Keys, value \in TableValues : TableSet(key, value)
    \/ \E key \in Keys : TableDelete(key)
    \/ TableAddAll
    \/ TableInit
    \/ TableFree

SpecTable == InitTable /\ [][NextTable]_vars

(***************************************************************************)
(* C1  Intern uniqueness.                                                  *)
(***************************************************************************)
LiveKeys(table) ==
    {i \in 1..table.capacity : table.entries[i].key # NULL}

SameBytes(o1, o2) ==
    /\ objects[o1].length = objects[o2].length
    /\ MemEq(objects[o1].chars, objects[o2].chars, objects[o1].length)

\* C1: after any sequence of copyString and takeString calls from initVM, two
\* calls given equal bytes returned the same object, the object returned holds
\* the bytes given, and vm.strings never holds two distinct string objects of
\* equal length and bytes.
C1_InternUnique ==
    /\ \A c1, c2 \in calls : c1.chars = c2.chars => c1.obj = c2.obj
    /\ \A c \in calls :
          /\ c.obj \in 1..Len(objects)
          /\ objects[c.obj].length = Len(c.chars)
          /\ objects[c.obj].chars = c.chars
    /\ \A i, j \in LiveKeys(strings) :
          SameBytes(strings.entries[i].key, strings.entries[j].key)
              => strings.entries[i].key = strings.entries[j].key

\* The last call found its bytes interned by an earlier call, in a table that
\* has grown and that holds an object away from its home slot (a collision).
C1_Witness ==
    /\ found
    /\ strings.capacity > 8
    /\ Cardinality(calls) = Len(objects)
    /\ \E i \in LiveKeys(strings) :
          HashMod(objects[strings.entries[i].key].hash, strings.capacity) # i - 1

(***************************************************************************)
(* C2  Table round-trip.                                                   *)
(***************************************************************************)
Tombstones(t) ==
    {i \in 1..t.capacity : t.entries[i].key = NULL /\ ~IS_NIL(t.entries[i].value)}

\* the live entries that are not at their home slot
Displaced(t) ==
    {i \in LiveKeys(t) :
        HashMod(objects[t.entries[i].key].hash, t.capacity) # i - 1}

\* C2: after any sequence of tableSet and tableDelete (and tableAddAll) from a
\* freshly initialized table, tableGet of a key returns true and yields the
\* value last set for it, and returns false for a key never set or deleted
\* since, whatever the collisions and the growth in between.
C2_RoundTrip ==
    \A k \in DOMAIN shadow :
        /\ ~tableGet(objects, tbl, k).hang
        /\ tableGet(objects, tbl, k).found = (shadow[k] # Absent)
        /\ shadow[k] # Absent => tableGet(objects, tbl, k).value = shadow[k]

\* A table that has grown, holds a key displaced by a collision and another
\* key at their common home slot, and from which a key was deleted after
\* the growth (a tombstone is left), while six keys still resolve.
C2_Witness ==
    /\ tbl.capacity > 8
    /\ Tombstones(tbl) # {}
    /\ Displaced(tbl) # {}
    /\ Cardinality({k \in DOMAIN shadow : shadow[k] # Absent}) >= 6
    /\ \E k \in DOMAIN shadow : shadow[k] \notin TableValues \cup {Absent}

(***************************************************************************)
(* C3  Load factor.                                                        *)
(***************************************************************************)
\* C3: after any sequence of initTable, tableSet, tableDelete, tableAddAll
\* and freeTable, count <= 0.75 * capacity or capacity = 0, count including
\* the tombstones.
C3_LoadFactor ==
    tbl.capacity = 0 \/ 4 * tbl.count <= 3 * tbl.capacity

\* A table exactly at its maximal load, one of the counted slots a tombstone.
C3_Witness ==
    /\ tbl.capacity > 0
    /\ 4 * tbl.count = 3 * tbl.capacity
    /\ Tombstones(tbl) # {}
    /\ tbl.count = Cardinality(LiveKeys(tbl)) + Cardinality(Tombstones(tbl))

(***************************************************************************)
(* The whole program: main.c, vm.c interpret, compiler.c, chunk.c.         *)
(*                                                                         *)
(* scanner.c is not part of the sources at hand.  A source text is given   *)
(* as the sequence of tokens the scanner finds in it; a token is           *)
(* [type, lexeme, message, line]: start[0 .. length-1] is the lexeme, as   *)
(* bytes, and for a TOKEN_ERROR it is the message the scanner put there.   *)
(***************************************************************************)
\* the text of the tokens that are always spelled the same
Lexemes ==
    [TOKEN_LEFT_PAREN |-> <<40>>, TOKEN_RIGHT_PAREN |-> <<41>>,
     TOKEN_LEFT_BRACE |-> <<123>>, TOKEN_RIGHT_BRACE |-> <<125>>,
     TOKEN_MINUS |-> <<45>>, TOKEN_PLUS |-> <<43>>, TOKEN_SEMICOLON |-> <<59>>,
     TOKEN_SLASH |-> <<47>>, TOKEN_STAR |-> <<42>>, TOKEN_BANG |-> <<33>>,
     TOKEN_BANG_EQUAL |-> <<33, 61>>, TOKEN_EQUAL |-> <<61>>,
     TOKEN_EQUAL_EQUAL |-> <<61, 61>>, TOKEN_GREATER |-> <<62>>,
     TOKEN_GREATER_EQUAL |-> <<62, 61>>, TOKEN_LESS |-> <<60>>,
     TOKEN_LESS_EQUAL |-> <<60, 61>>,
     TOKEN_FALSE |-> <<102, 97, 108, 115, 101>>, TOKEN_NIL |-> <<110, 105, 108>>,
     TOKEN_PRINT |-> <<112, 114, 105, 110, 116>>,
     TOKEN_TRUE |-> <<116, 114, 117, 101>>, TOKEN_VAR |-> <<118, 97, 114>>,
     TOKEN_WHILE |-> <<119, 104, 105, 108, 101>>, TOKEN_EOF |-> <<>>]

Token(type, lexeme, line) ==
    [type |-> type, lexeme |-> lexeme, message |-> "", line |-> line]

\* a punctuation mark or a keyword
Fixed(type, line) == Token(type, Lexemes[type], line)

Identifier(name, line) == Token("TOKEN_IDENTIFIER", name, line)

\* a number literal, given by its digits
Number(digits, line) == Token("TOKEN_NUMBER", digits, line)

\* a string literal: the lexeme includes the quotation marks
String(chars, line) == Token("TOKEN_STRING", <<34>> \o chars \o <<34>>, line)

\* what the scanner makes of a character that starts no token
ErrorToken(line) ==
    [type |-> "TOKEN_ERROR", lexeme |-> <<>>, message |-> "Unexpected character.",
     line |-> line]

\* a Token nobody has assigned yet (Parser parser is static storage)
NoToken == Token("TOKEN_LEFT_PAREN", <<>>, 0)

\* scanToken(): the next token of the source, TOKEN_EOF at its end, for ever
scanToken(tokens, position) ==
    IF position <= Len(tokens) THEN tokens[position]
    ELSE Fixed("TOKEN_EOF",
               IF Len(tokens) = 0 THEN 1 ELSE tokens[Len(tokens)].line)

(***************************************************************************)
(* chunk.h, compiler.c: the instruction set, the precedences, the rules.   *)
(***************************************************************************)
OpCode ==
    [OP_CONSTANT |-> 0, OP_NIL |-> 1, OP_TRUE |-> 2, OP_FALSE |-> 3,
     OP_POP |-> 4, OP_GET_LOCAL |-> 5, OP_SET_LOCAL |-> 6, OP_GET_GLOBAL |-> 7,
     OP_DEFINE_GLOBAL |-> 8, OP_SET_GLOBAL |-> 9, OP_EQUAL |-> 10,
     OP_GREATER |-> 11, OP_LESS |-> 12, OP_ADD |-> 13, OP_SUBTRACT |-> 14,
     OP_MULTIPLY |-> 15, OP_DIVIDE |-> 16, OP_NOT |-> 17, OP_NEGATE |-> 18,
     OP_PRINT |-> 19, OP_RETURN |-> 20]

Precedence ==
    [PREC_NONE |-> 0, PREC_ASSIGNMENT |-> 1, PREC_OR |-> 2, PREC_AND |-> 3,
     PREC_EQUALITY |-> 4, PREC_COMPARISON |-> 5, PREC_TERM |-> 6,
     PREC_FACTOR |-> 7, PREC_UNARY |-> 8, PREC_CALL |-> 9, PREC_PRIMARY |-> 10]

UINT8_COUNT == 256

UINT8_MAX == UINT8_COUNT - 1

ParseRule(prefix, infix, precedence) ==
    [prefix |-> prefix, infix |-> infix, precedence |-> Precedence[precedence]]

\* rules[]: every row that is not spelled out is {NULL, NULL, PREC_NONE}
getRule(type) ==
    CASE type = "TOKEN_LEFT_PAREN" -> ParseRule("grouping", "NULL", "PREC_NONE")
      [] type = "TOKEN_MINUS" -> ParseRule("unary", "binary", "PREC_TERM")
      [] type = "TOKEN_PLUS" -> ParseRule("NULL", "binary", "PREC_TERM")
      [] type \in {"TOKEN_SLASH", "TOKEN_STAR"} ->
             ParseRule("NULL", "binary", "PREC_FACTOR")
      [] type = "TOKEN_BANG" -> ParseRule("unary", "NULL", "PREC_NONE")
      [] type \in {"TOKEN_BANG_EQUAL", "TOKEN_EQUAL_EQUAL"} ->
             ParseRule("NULL", "binary", "PREC_EQUALITY")
      [] type \in {"TOKEN_GREATER", "TOKEN_GREATER_EQUAL", "TOKEN_LESS",
                   "TOKEN_LESS_EQUAL"} ->
             ParseRule("NULL", "binary", "PREC_COMPARISON")
      [] type = "TOKEN_IDENTIFIER" -> ParseRule("variable", "NULL", "PREC_NONE")
      [] type = "TOKEN_STRING" -> ParseRule("string", "NULL", "PREC_NONE")
      [] type = "TOKEN_NUMBER" -> ParseRule("number", "NULL", "PREC_NONE")
      [] type \in {"TOKEN_FALSE", "TOKEN_NIL", "TOKEN_TRUE"} ->
             ParseRule("literal", "NULL", "PREC_NONE")
      [] OTHER -> ParseRule("NULL", "NULL", "PREC_NONE")

(***************************************************************************)
(* chunk.c.  A Chunk is [count, capacity, code, lines, constants,          *)
(* outOfBounds].  A cell of code or lines that nothing has written holds   *)
(* Uninit; reallocate hands out such cells.  outOfBounds records that the  *)
(* chunk's code has read or written outside an array.                      *)
(***************************************************************************)
Uninit == -1

initChunk ==
    [count |-> 0, capacity |-> 0, code |-> <<>>, lines |-> <<>>,
     constants |-> <<>>, outOfBounds |-> FALSE]

freeChunk(ch) == initChunk

\* GROW_ARRAY: the old cells, then cells nothing has written
GROW_ARRAY(array, oldCount, newCount) ==
    [i \in 1..newCount |-> IF i <= oldCount /\ i <= Len(array) THEN array[i]
                           ELSE Uninit]

\* array[index] = value, which outside the array corrupts the heap and stores
\* nothing the array keeps
Store(array, index, value) ==
    IF index >= 0 /\ index < Len(array) THEN [array EXCEPT ![index + 1] = value]
    ELSE array

InBounds(array, index) == index >= 0 /\ index < Len(array)

\* the int that array[index] reads as: fill where nothing has written it
Load(array, index, fill) ==
    IF InBounds(array, index) /\ array[index + 1] # Uninit THEN array[index + 1]
    ELSE fill

\* writeChunk(chunk, byte, line); fill is what unwritten memory reads as
writeChunk(ch, byte, line, fill) ==
    LET grown ==
            IF ch.capacity < ch.count + 1
            THEN [ch EXCEPT
                    !.capacity = GROW_CAPACITY(ch.capacity),
                    !.code = GROW_ARRAY(ch.code, ch.capacity, GROW_CAPACITY(ch.capacity)),
                    !.lines = GROW_ARRAY(ch.lines, ch.capacity, GROW_CAPACITY(ch.capacity))]
            ELSE ch
        last == grown.count - 1
        lined ==
            IF line # Load(grown.lines, last, fill)
            THEN [grown EXCEPT
                    !.lines = Store(@, grown.count, line),
                    !.count = @ + 1,
                    !.outOfBounds = @ \/ ~InBounds(grown.lines, last)
                                      \/ ~InBounds(grown.lines, grown.count)]
            ELSE [grown EXCEPT
                    !.lines = Store(@, last, Load(@, last, fill) + 1),
                    !.outOfBounds = @ \/ ~InBounds(grown.lines, last)]
    IN  [lined EXCEPT
            !.code = Store(@, lined.count, byte),
            !.count = @ + 1,
            !.outOfBounds = @ \/ ~InBounds(lined.code, lined.count)]

\* writeValueArray(&chunk->constants, value)
writeValueArray(array, value) == Append(array, value)

\* addConstant(chunk, value): the chunk, and the index returned
addConstant(ch, value) ==
    [chunk |-> [ch EXCEPT !.constants = writeValueArray(@, value)],
     index |-> Len(ch.constants)]

(***************************************************************************)
(* compiler.c.  The functions that return to their caller before any       *)
(* other function of the compiler needs the state they leave are           *)
(* operators on the state c of the compilation,                            *)
(*   [source, scanner, parser, current, chunk, stderr, stdout, objects,    *)
(*    strings, hung, junk],                                                *)
(* and give the state they leave (with the value they return, if any).     *)
(***************************************************************************)
\* what errorAt prints: "[line L] Error", the place, ": message"
ErrorLine(token, message) ==
    [line |-> token.line,
     at |-> IF token.type = "TOKEN_EOF" THEN "end"
            ELSE IF token.type = "TOKEN_ERROR" THEN "" ELSE "lexeme",
     lexeme |-> IF token.type \in {"TOKEN_EOF", "TOKEN_ERROR"} THEN <<>>
                ELSE token.lexeme,
     message |-> message]

\* a line on stderr that is not a compile error
PlainLine(text) == [line |-> 0, at |-> "", lexeme |-> <<>>, message |-> text]

\* errorAt without the test of panicMode
errorAt_Always(c, token, message) ==
    [c EXCEPT !.parser.panicMode = TRUE,
              !.stderr = Append(@, ErrorLine(token, message)),
              !.parser.hadError = TRUE]

errorAt(c, token, message) ==
    IF c.parser.panicMode THEN c
    ELSE [c EXCEPT !.parser.panicMode = TRUE,
                   !.stderr = Append(@, ErrorLine(token, message)),
                   !.parser.hadError = TRUE]

error(c, message) == errorAt(c, c.parser.previous, message)

errorAtCurrent(c, message) == errorAt(c, c.parser.current, message)

\* the for (;;) of advance
RECURSIVE advanceLoop(_)
advanceLoop(c) ==
    LET token == scanToken(c.source, c.scanner)
        scanned == [c EXCEPT !.parser.current = token,
                             !.scanner = IF @ <= Len(c.source) THEN @ + 1 ELSE @]
    IN  IF token.type # "TOKEN_ERROR" THEN scanned
        ELSE advanceLoop(errorAtCurrent(scanned, token.message))

advance(c) == advanceLoop([c EXCEPT !.parser.previous = c.parser.current])

consume(c, type, message) ==
    IF c.parser.current.type = type THEN advance(c)
    ELSE errorAtCurrent(c, message)

check(c, type) == c.parser.current.type = type

\* match(type): what it returns is check(c, type), what it leaves is this
match(c, type) == IF ~check(c, type) THEN c ELSE advance(c)

emitByte(c, byte) ==
    [c EXCEPT !.chunk = writeChunk(@, byte, c.parser.previous.line, c.junk)]

emitBytes(c, byte1, byte2) == emitByte(emitByte(c, byte1), byte2)

emitReturn(c) == emitByte(c, OpCode.OP_RETURN)

\* makeConstant refusing one constant too early
makeConstant_OffByOne(c, value) ==
    LET added == addConstant(c.chunk, value)
        constant == added.index
        after == [c EXCEPT !.chunk = added.chunk]
    IN  IF constant >= UINT8_MAX
        THEN [c |-> error(after, "Too many constants in one chunk."), constant |-> 0]
        ELSE [c |-> after, constant |-> constant]

\* makeConstant truncating the index without a word
makeConstant_Silent(c, value) ==
    LET added == addConstant(c.chunk, value)
    IN  [c |-> [c EXCEPT !.chunk = added.chunk], constant |-> added.index % 256]

makeConstant(c, value) ==
    LET added == addConstant(c.chunk, value)
        constant == added.index
        after == [c EXCEPT !.chunk = added.chunk]
    IN  IF constant > UINT8_MAX
        THEN [c |-> error(after, "Too many constants in one chunk."), constant |-> 0]
        ELSE [c |-> after, constant |-> constant]

emitConstant(c, value) ==
    LET made == makeConstant(c, value)
    IN  emitBytes(made.c, OpCode.OP_CONSTANT, made.constant)

initCompiler == [locals |-> <<>>, localCount |-> 0, scopeDepth |-> 0]

\* what DEBUG_PRINT_CODE writes: the heading of disassembleChunk(chunk,
\* name), the listing left out
disassembleChunk(ch, name) == "== " \o name \o " ==\n"

\* endCompiler(), with DEBUG_PRINT_CODE defined (common.h)
endCompiler(c) ==
    LET d == emitReturn(c)
    IN  IF ~d.parser.hadError
        THEN [d EXCEPT !.stdout = Append(@, disassembleChunk(d.chunk, "code"))]
        ELSE d

beginScope(c) == [c EXCEPT !.current.scopeDepth = @ + 1]

\* the greatest member of a non-empty set of integers
Greatest(S) == CHOOSE j \in S : \A k \in S : k <= j

\* the while of endScope, for n turns at most, one after the other (the first
\* half of them, then the rest)
RECURSIVE endScopeTurns(_, _)
endScopeTurns(c, n) ==
    IF \/ n = 0
       \/ ~(/\ c.current.localCount > 0
            /\ c.current.locals[c.current.localCount].depth > c.current.scopeDepth)
    THEN c
    ELSE IF n = 1
         THEN [emitByte(c, OpCode.OP_POP) EXCEPT
                  !.current.localCount = @ - 1,
                  !.current.locals = SubSeq(@, 1, c.current.localCount - 1)]
         ELSE endScopeTurns(endScopeTurns(c, n \div 2), n - (n \div 2))

\* the while of endScope: each turn takes a local away, so there are
\* localCount turns at most
endScopeLoop(c) == endScopeTurns(c, c.current.localCount)

endScope(c) == endScopeLoop([c EXCEPT !.current.scopeDepth = @ - 1])

\* identifierConstant(name): copyString puts the lexeme on the heap
identifierConstant(c, name) ==
    LET r == copyString(c.objects, c.strings, name.lexeme, Len(name.lexeme))
    IN  makeConstant([c EXCEPT !.objects = r.objects, !.strings = r.strings,
                               !.hung = r.hang],
                     OBJ_VAL(r.string))

identifiersEqual(a, b) ==
    IF Len(a.lexeme) # Len(b.lexeme) THEN FALSE
    ELSE MemEq(a.lexeme, b.lexeme, Len(a.lexeme))

\* resolveLocal passing over the locals that are declared and not yet initialized
resolveLocalLoop_SkipUninit(c, name, i) ==
    LET equal == {j \in 0..i :
                     /\ identifiersEqual(name, c.current.locals[j + 1].name)
                     /\ c.current.locals[j + 1].depth # -1}
    IN  IF equal = {} THEN [c |-> c, arg |-> -1]
        ELSE [c |-> c, arg |-> Greatest(equal)]

\* the for of resolveLocal, from locals[i] down: the state, and what is
\* returned. The loop returns at the first local of that name it meets, which
\* is the one of the greatest index.
resolveLocalLoop(c, name, i) ==
    LET equal == {j \in 0..i :
                     identifiersEqual(name, c.current.locals[j + 1].name)}
    IN  IF equal = {} THEN [c |-> c, arg |-> -1]
        ELSE [c |-> IF c.current.locals[Greatest(equal) + 1].depth = -1
                    THEN error(c, "Can't read local variable in its own initializer.")
                    ELSE c,
              arg |-> Greatest(equal)]

resolveLocal(c, name) == resolveLocalLoop(c, name, c.current.localCount - 1)

\* addLocal refusing one local too late
addLocal_OffByOne(c, name) ==
    IF c.current.localCount > UINT8_COUNT
    THEN error(c, "Too many local variables in function.")
    ELSE [c EXCEPT !.current.localCount = @ + 1,
                   !.current.locals = Append(@, [name |-> name, depth |-> -1])]

\* addLocal taking the local for initialized at once
addLocal_Initialized(c, name) ==
    IF c.current.localCount = UINT8_COUNT
    THEN error(c, "Too many local variables in function.")
    ELSE [c EXCEPT !.current.localCount = @ + 1,
                   !.current.locals = Append(@, [name |-> name,
                                                 depth |-> c.current.scopeDepth])]

addLocal(c, name) ==
    IF c.current.localCount = UINT8_COUNT
    THEN error(c, "Too many local variables in function.")
    ELSE [c EXCEPT !.current.localCount = @ + 1,
                   !.current.locals = Append(@, [name |-> name, depth |-> -1])]

\* the for of declareVariable, from locals[i] down
\* the turns of the for of declareVariable that find the name, from the
\* greatest index down: each calls error
RECURSIVE declareVariableTurns(_, _)
declareVariableTurns(c, equal) ==
    IF equal = {} THEN c
    ELSE declareVariableTurns(
             error(c, "Already a variable with this name in this scope."),
             equal \ {Greatest(equal)})

\* the for of declareVariable, from locals[i] down: it breaks at the first
\* local it meets that an enclosing scope owns, which is the one of the
\* greatest index, and the turns before the break compare the names
declareVariableLoop(c, name, i) ==
    LET outer == {j \in 0..i :
                     /\ c.current.locals[j + 1].depth # -1
                     /\ c.current.locals[j + 1].depth < c.current.scopeDepth}
        last == IF outer = {} THEN 0 ELSE Greatest(outer) + 1
    IN  declareVariableTurns(c, {j \in last..i :
                                    identifiersEqual(name, c.current.locals[j + 1].name)})

declareVariable(c) ==
    IF c.current.scopeDepth = 0 THEN c
    ELSE addLocal(declareVariableLoop(c, c.parser.previous,
                                      c.current.localCount - 1),
                  c.parser.previous)

\* parseVariable(errorMessage): the state, and the uint8_t returned
parseVariable(c, errorMessage) ==
    LET declared == declareVariable(consume(c, "TOKEN_IDENTIFIER", errorMessage))
    IN  IF declared.current.scopeDepth > 0 THEN [c |-> declared, constant |-> 0]
        ELSE identifierConstant(declared, declared.parser.previous)

\* locals[localCount - 1].depth = scopeDepth
markInitialized(c) ==
    [c EXCEPT !.current.locals[c.current.localCount].depth = c.current.scopeDepth]

defineVariable(c, global) ==
    IF c.current.scopeDepth > 0 THEN markInitialized(c)
    ELSE emitBytes(c, OpCode.OP_DEFINE_GLOBAL, global)

\* the whole number that decimal digits spell
RECURSIVE Decimal(_)
Decimal(digits) ==
    IF Len(digits) = 0 THEN 0
    ELSE 10 * Decimal(SubSeq(digits, 1, Len(digits) - 1)) + (digits[Len(digits)] - 48)

\* strtod on the digits of a number literal
strtod(digits) == Double(Decimal(digits))

number(c) == emitConstant(c, NUMBER_VAL(strtod(c.parser.previous.lexeme)))

\* string(canAssign): the lexeme without its quotation marks
string(c) ==
    LET lexeme == c.parser.previous.lexeme
        r == copyString(c.objects, c.strings, SubSeq(lexeme, 2, Len(lexeme) - 1),
                        Len(lexeme) - 2)
    IN  emitConstant([c EXCEPT !.objects = r.objects, !.strings = r.strings,
                               !.hung = r.hang],
                     OBJ_VAL(r.string))

literal(c) ==
    CASE c.parser.previous.type = "TOKEN_FALSE" -> emitByte(c, OpCode.OP_FALSE)
      [] c.parser.previous.type = "TOKEN_NIL" -> emitByte(c, OpCode.OP_NIL)
      [] c.parser.previous.type = "TOKEN_TRUE" -> emitByte(c, OpCode.OP_TRUE)
      [] OTHER -> c

\* the while of synchronize
RECURSIVE synchronizeLoop(_)
synchronizeLoop(c) ==
    IF c.parser.current.type = "TOKEN_EOF" THEN c
    ELSE IF c.parser.previous.type = "TOKEN_SEMICOLON" THEN c
    ELSE IF c.parser.current.type \in
              {"TOKEN_CLASS", "TOKEN_FUN", "TOKEN_VAR", "TOKEN_FOR", "TOKEN_IF",
               "TOKEN_WHILE", "TOKEN_PRINT", "TOKEN_RETURN"} THEN c
    ELSE synchronizeLoop(advance(c))

synchronize(c) == synchronizeLoop([c EXCEPT !.parser.panicMode = FALSE])

\* the first half of namedVariable(name, canAssign): which instructions read
\* and write the variable, and their operand
namedVariable(c, name) ==
    LET resolved == resolveLocal(c, name)
        constant == identifierConstant(resolved.c, name)
    IN  IF resolved.arg # -1
        THEN [c |-> resolved.c, getOp |-> OpCode.OP_GET_LOCAL,
              setOp |-> OpCode.OP_SET_LOCAL, arg |-> resolved.arg]
        ELSE [c |-> constant.c, getOp |-> OpCode.OP_GET_GLOBAL,
              setOp |-> OpCode.OP_SET_GLOBAL, arg |-> constant.constant]

\* canAssign true whatever the precedence
CanAssign_Always(precedence) == TRUE

\* bool canAssign = precedence <= PREC_ASSIGNMENT
CanAssign(precedence) == precedence <= Precedence.PREC_ASSIGNMENT

\* the switch of binary(canAssign), after the right operand
binary(c, operatorType) ==
    CASE operatorType = "TOKEN_BANG_EQUAL" -> emitBytes(c, OpCode.OP_EQUAL, OpCode.OP_NOT)
      [] operatorType = "TOKEN_EQUAL_EQUAL" -> emitByte(c, OpCode.OP_EQUAL)
      [] operatorType = "TOKEN_GREATER" -> emitByte(c, OpCode.OP_GREATER)
      [] operatorType = "TOKEN_GREATER_EQUAL" -> emitBytes(c, OpCode.OP_LESS, OpCode.OP_NOT)
      [] operatorType = "TOKEN_LESS" -> emitByte(c, OpCode.OP_LESS)
      [] operatorType = "TOKEN_LESS_EQUAL" -> emitBytes(c, OpCode.OP_GREATER, OpCode.OP_NOT)
      [] operatorType = "TOKEN_PLUS" -> emitByte(c, OpCode.OP_ADD)
      [] operatorType = "TOKEN_MINUS" -> emitByte(c, OpCode.OP_SUBTRACT)
      [] operatorType = "TOKEN_STAR" -> emitByte(c, OpCode.OP_MULTIPLY)
      [] operatorType = "TOKEN_SLASH" -> emitByte(c, OpCode.OP_DIVIDE)
      [] OTHER -> c

\* the switch of unary(canAssign), after the operand
unary(c, operatorType) ==
    CASE operatorType = "TOKEN_BANG" -> emitByte(c, OpCode.OP_NOT)
      [] operatorType = "TOKEN_MINUS" -> emitByte(c, OpCode.OP_NEGATE)
      [] OTHER -> c

(***************************************************************************)
(* The sources the program is run on.                                      *)
(***************************************************************************)
\* every source of at most MaxTokens tokens of Alphabet is compiled
MaxTokens == 3

\* unwritten memory reads as one of 0 .. MaxJunk
MaxJunk == 1

\* the REPL is given at most MaxLines lines
MaxLines == 3

\* the long sources reach UINT8_COUNT constants or locals, and Beyond more
Beyond == 2

\* the decimal digits of n
RECURSIVE Digits(_)
Digits(n) == IF n < 10 THEN <<48 + n>> ELSE Append(Digits(n \div 10), 48 + (n % 10))

Semicolon == Fixed("TOKEN_SEMICOLON", 1)

\* 1; 1; ... (n times)
ManyConstants(n) ==
    [i \in 1..(2 * n) |-> IF i % 2 = 1 THEN Number(<<49>>, 1) ELSE Semicolon]

\* var x1; var x2; ... var xn;
ManyVars(n) ==
    [i \in 1..(3 * n) |->
        IF i % 3 = 1 THEN Fixed("TOKEN_VAR", 1)
        ELSE IF i % 3 = 2 THEN Identifier(<<120>> \o Digits((i + 1) \div 3), 1)
        ELSE Semicolon]

\* { var x1; ... var xn; }
ManyLocals(n) ==
    <<Fixed("TOKEN_LEFT_BRACE", 1)>> \o ManyVars(n) \o <<Fixed("TOKEN_RIGHT_BRACE", 1)>>

\* the tokens of the short sources, by the line they stand on
Alphabet(line) ==
    <<Fixed("TOKEN_VAR", line), Identifier(<<97>>, line), Fixed("TOKEN_EQUAL", line),
      Number(<<49>>, line), Fixed("TOKEN_SEMICOLON", line),
      Fixed("TOKEN_LEFT_BRACE", line),
      Fixed("TOKEN_RIGHT_BRACE", line), Fixed("TOKEN_PLUS", line), ErrorToken(line)>>

\* the sources of exactly n tokens, one line for the first two tokens and the
\* next line for the rest
RECURSIVE Short(_)
Short(n) ==
    IF n = 0 THEN << <<>> >>
    ELSE LET shorter == Short(n - 1)
             tokens == Alphabet(IF n <= 2 THEN 1 ELSE 2)
         IN  [k \in 1..(Len(shorter) * Len(tokens)) |->
                 Append(shorter[((k - 1) \div Len(tokens)) + 1],
                        tokens[((k - 1) % Len(tokens)) + 1])]

\* the sources of at most n tokens
RECURSIVE UpTo(_)
UpTo(n) == IF n = 0 THEN Short(0) ELSE UpTo(n - 1) \o Short(n)

\* the sources written out, each on one line unless said otherwise
Name(char) == Identifier(<<char>>, 1)

Mark(type) == Fixed(type, 1)

\* var a = 10; { var a = a + 1; print a; } print a;
ShadowScript ==
    <<Mark("TOKEN_VAR"), Name(97), Mark("TOKEN_EQUAL"), Number(<<49, 48>>, 1), Semicolon,
      Mark("TOKEN_LEFT_BRACE"),
      Mark("TOKEN_VAR"), Name(97), Mark("TOKEN_EQUAL"), Name(97), Mark("TOKEN_PLUS"),
      Number(<<49>>, 1), Semicolon,
      Mark("TOKEN_PRINT"), Name(97), Semicolon,
      Mark("TOKEN_RIGHT_BRACE"),
      Mark("TOKEN_PRINT"), Name(97), Semicolon>>

\* { var a = 1; { var a = a; } }
NestedScript ==
    <<Mark("TOKEN_LEFT_BRACE"),
      Mark("TOKEN_VAR"), Name(97), Mark("TOKEN_EQUAL"), Number(<<49>>, 1), Semicolon,
      Mark("TOKEN_LEFT_BRACE"),
      Mark("TOKEN_VAR"), Name(97), Mark("TOKEN_EQUAL"), Name(97), Semicolon,
      Mark("TOKEN_RIGHT_BRACE"), Mark("TOKEN_RIGHT_BRACE")>>

\* { var x = x; }
OwnInitializerScript ==
    <<Mark("TOKEN_LEFT_BRACE"),
      Mark("TOKEN_VAR"), Name(120), Mark("TOKEN_EQUAL"), Name(120), Semicolon,
      Mark("TOKEN_RIGHT_BRACE")>>

\* { var a = 1; var b = a; a = b + 2; print a; }
LocalsScript ==
    <<Mark("TOKEN_LEFT_BRACE"),
      Mark("TOKEN_VAR"), Name(97), Mark("TOKEN_EQUAL"), Number(<<49>>, 1), Semicolon,
      Mark("TOKEN_VAR"), Name(98), Mark("TOKEN_EQUAL"), Name(97), Semicolon,
      Name(97), Mark("TOKEN_EQUAL"), Name(98), Mark("TOKEN_PLUS"), Number(<<50>>, 1),
      Semicolon,
      Mark("TOKEN_PRINT"), Name(97), Semicolon,
      Mark("TOKEN_RIGHT_BRACE")>>

\* a + b = c;
TargetScript ==
    <<Name(97), Mark("TOKEN_PLUS"), Name(98), Mark("TOKEN_EQUAL"), Name(99), Semicolon>>

\* (a) = 1;
GroupTargetScript ==
    <<Mark("TOKEN_LEFT_PAREN"), Name(97), Mark("TOKEN_RIGHT_PAREN"),
      Mark("TOKEN_EQUAL"), Number(<<49>>, 1), Semicolon>>

\* a = b = 1;
AssignScript ==
    <<Name(97), Mark("TOKEN_EQUAL"), Name(98), Mark("TOKEN_EQUAL"), Number(<<49>>, 1),
      Semicolon>>

\* print !(5 - 4 > 3 * 2 == !nil);
LogicScript ==
    <<Mark("TOKEN_PRINT"), Mark("TOKEN_BANG"), Mark("TOKEN_LEFT_PAREN"),
      Number(<<53>>, 1), Mark("TOKEN_MINUS"), Number(<<52>>, 1), Mark("TOKEN_GREATER"),
      Number(<<51>>, 1), Mark("TOKEN_STAR"), Number(<<50>>, 1),
      Mark("TOKEN_EQUAL_EQUAL"), Mark("TOKEN_BANG"), Mark("TOKEN_NIL"),
      Mark("TOKEN_RIGHT_PAREN"), Semicolon>>

\* print "st" + "ri" + "ng";
ConcatScript ==
    <<Mark("TOKEN_PRINT"), String(<<115, 116>>, 1), Mark("TOKEN_PLUS"),
      String(<<114, 105>>, 1), Mark("TOKEN_PLUS"), String(<<110, 103>>, 1), Semicolon>>

\* var 1; print -true;   with print on the next line
RecoverScript ==
    <<Mark("TOKEN_VAR"), Number(<<49>>, 1), Semicolon,
      Fixed("TOKEN_PRINT", 2), Fixed("TOKEN_MINUS", 2), Fixed("TOKEN_TRUE", 2),
      Fixed("TOKEN_SEMICOLON", 2)>>

\* print 1 + 2;
SumScript ==
    <<Mark("TOKEN_PRINT"), Number(<<49>>, 1), Mark("TOKEN_PLUS"), Number(<<50>>, 1),
      Semicolon>>

\* print 1; var a = 2; print a; print b; print 3;
OrderScript ==
    <<Mark("TOKEN_PRINT"), Number(<<49>>, 1), Semicolon,
      Mark("TOKEN_VAR"), Name(97), Mark("TOKEN_EQUAL"), Number(<<50>>, 1), Semicolon,
      Mark("TOKEN_PRINT"), Name(97), Semicolon,
      Mark("TOKEN_PRINT"), Name(98), Semicolon,
      Mark("TOKEN_PRINT"), Number(<<51>>, 1), Semicolon>>

\* print 1;  and on the next line  print -nil;
SecondLineScript ==
    <<Mark("TOKEN_PRINT"), Number(<<49>>, 1), Semicolon,
      Fixed("TOKEN_PRINT", 2), Fixed("TOKEN_MINUS", 2), Fixed("TOKEN_NIL", 2),
      Fixed("TOKEN_SEMICOLON", 2)>>

\* { var a; var a; { var a; } }
RedeclareScript ==
    <<Mark("TOKEN_LEFT_BRACE"),
      Mark("TOKEN_VAR"), Name(97), Semicolon,
      Mark("TOKEN_VAR"), Name(97), Semicolon,
      Mark("TOKEN_LEFT_BRACE"), Mark("TOKEN_VAR"), Name(97), Semicolon,
      Mark("TOKEN_RIGHT_BRACE"), Mark("TOKEN_RIGHT_BRACE")>>

Scripts ==
    <<ShadowScript, NestedScript, OwnInitializerScript, LocalsScript, TargetScript,
      GroupTargetScript, AssignScript, LogicScript, ConcatScript, RecoverScript,
      SumScript, OrderScript, SecondLineScript, RedeclareScript>>

\* the operands of every type: 1, "a", nil, true
Operands == <<Number(<<49>>, 1), String(<<97>>, 1), Mark("TOKEN_NIL"), Mark("TOKEN_TRUE")>>

\* the operators whose instruction checks the types of its operands
Operators ==
    <<Mark("TOKEN_PLUS"), Mark("TOKEN_MINUS"), Mark("TOKEN_STAR"), Mark("TOKEN_SLASH"),
      Mark("TOKEN_GREATER"), Mark("TOKEN_LESS")>>

\* - x;   for every operand x
NegateScripts == [x \in 1..Len(Operands) |-> <<Mark("TOKEN_MINUS"), Operands[x], Semicolon>>]

\* x op y;   for every operator op and operands x and y
BinaryScripts ==
    [k \in 1..(Len(Operators) * Len(Operands) * Len(Operands)) |->
        <<Operands[(((k - 1) \div Len(Operands)) % Len(Operands)) + 1],
          Operators[((k - 1) \div (Len(Operands) * Len(Operands))) + 1],
          Operands[((k - 1) % Len(Operands)) + 1],
          Semicolon>>]

OperandScripts == NegateScripts \o BinaryScripts

\* var 1;
VarOne == <<Mark("TOKEN_VAR"), Number(<<49>>, 1), Semicolon>>

\* UINT8_COUNT constants, and nothing more
FullPool == ManyConstants(UINT8_COUNT)

\* more constants than UINT8_COUNT
OverfullPool == ManyConstants(UINT8_COUNT + Beyond)

\* UINT8_COUNT constants, and then a declaration without a name
FullPoolVarOne == FullPool \o VarOne

\* UINT8_COUNT locals in one block
FullLocals == ManyLocals(UINT8_COUNT)

\* more locals than UINT8_COUNT in one block
OverfullLocals == ManyLocals(UINT8_COUNT + Beyond)

\* UINT8_COUNT locals, and then in the same block a declaration without a name
FullLocalsVarOne ==
    <<Mark("TOKEN_LEFT_BRACE")>> \o ManyVars(UINT8_COUNT) \o VarOne
        \o <<Mark("TOKEN_RIGHT_BRACE")>>

\* UINT8_COUNT locals in one block, and in it an expression statement
DeepScript ==
    <<Mark("TOKEN_LEFT_BRACE")>> \o ManyVars(UINT8_COUNT)
        \o <<Number(<<49>>, 1), Semicolon, Mark("TOKEN_RIGHT_BRACE")>>

\* as many constants as make every byte of the code the index of a constant
IndexedScript == ManyConstants(OpCode.OP_RETURN + 1)

\* { var x1; ... var x256; { var y; var x256; } }
InnerOverfullScript ==
    <<Mark("TOKEN_LEFT_BRACE")>> \o ManyVars(UINT8_COUNT)
        \o <<Mark("TOKEN_LEFT_BRACE"), Mark("TOKEN_VAR"), Name(121), Semicolon,
             Mark("TOKEN_VAR"), Identifier(<<120>> \o Digits(UINT8_COUNT), 1),
             Semicolon,
             Mark("TOKEN_RIGHT_BRACE"), Mark("TOKEN_RIGHT_BRACE")>>

LongSources ==
    <<FullPool, OverfullPool, FullPoolVarOne, FullLocals, OverfullLocals,
      FullLocalsVarOne, DeepScript, IndexedScript, InnerOverfullScript>>

\* var a = 1;
VarLine ==
    <<Mark("TOKEN_VAR"), Name(97), Mark("TOKEN_EQUAL"), Number(<<49>>, 1), Semicolon>>

\* print a;
PrintLine == <<Mark("TOKEN_PRINT"), Name(97), Semicolon>>

\* 1 + ;
BadLine == <<Number(<<49>>, 1), Mark("TOKEN_PLUS"), Semicolon>>

\* var b = 1; a = 2;
AssignLine ==
    <<Mark("TOKEN_VAR"), Name(98), Mark("TOKEN_EQUAL"), Number(<<49>>, 1), Semicolon,
      Name(97), Mark("TOKEN_EQUAL"), Number(<<50>>, 1), Semicolon>>

\* { var a; var b; b = b; }
LocalLine ==
    <<Mark("TOKEN_LEFT_BRACE"),
      Mark("TOKEN_VAR"), Name(97), Semicolon, Mark("TOKEN_VAR"), Name(98), Semicolon,
      Name(98), Mark("TOKEN_EQUAL"), Name(98), Semicolon,
      Mark("TOKEN_RIGHT_BRACE")>>

ReplLines == <<VarLine, PrintLine, BadLine, AssignLine, LocalLine>>

\* the texts a const char *source can point to; the pointer is the index
Texts == ReplLines \o Scripts \o OperandScripts \o LongSources \o UpTo(MaxTokens)

\* the lines typed to the REPL
Lines == 1..Len(ReplLines)

\* the contents of script files
Files == (Len(ReplLines) + 1)..Len(Texts)

\* the sequences of at most n lines
RECURSIVE Inputs(_)
Inputs(n) ==
    IF n = 0 THEN {<<>>}
    ELSE Inputs(n - 1) \cup {Append(i, l) : i \in Inputs(n - 1), l \in Lines}

NoFile == [readable |-> FALSE, source |-> NULL]

\* interpret is at work on the text
Interprets(text) == source # NULL /\ Texts[source] = text

(***************************************************************************)
(* The functions of the compiler that call one another recursively         *)
(* (compile, declaration, varDeclaration, statement, block, the statement  *)
(* forms, parsePrecedence and the parse functions) run as steps.  cstack   *)
(* holds their activations, the innermost last: fn is the function, at is  *)
(* "call" before its first statement and otherwise the point at which it   *)
(* goes on when its callee returns; the other fields are its locals, and   *)
(* for a statement that is a block, `entered` is *current as it was when   *)
(* the statement began, and for a declaration `position` is where          *)
(* parser.current stood in the source when it was called (no code reads    *)
(* the two: they are there to be compared with).                           *)
(***************************************************************************)
Frame(fn, at) ==
    [fn |-> fn, at |-> at, precedence |-> 0, canAssign |-> FALSE,
     operatorType |-> "", arg |-> 0, setOp |-> 0, global |-> 0,
     entered |-> initCompiler, position |-> 0]

\* a call of parsePrecedence(precedence); expression() is the call with PREC_ASSIGNMENT
Call_parsePrecedence(precedence) ==
    [Frame("parsePrecedence", "call") EXCEPT !.precedence = precedence]

expression == Call_parsePrecedence(Precedence.PREC_ASSIGNMENT)

Top == cstack[Len(cstack)]

\* where parser.current stands in the source: the index of the token, and one
\* past the last index for the TOKEN_EOF
Position ==
    IF parser.current.type = "TOKEN_EOF" THEN Len(Texts[source]) + 1
    ELSE scanner - 1

\* a call of declaration()
Call_declaration == [Frame("declaration", "call") EXCEPT !.position = Position]

Running(fn, at) ==
    /\ pc = "compile"
    /\ ~hung
    /\ cstack # <<>>
    /\ Top.fn = fn
    /\ Top.at = at

\* the stack when the running function returns
Return == SubSeq(cstack, 1, Len(cstack) - 1)

\* the stack when the running function, going on at `at` later, calls callee
Calls(at, callee) == Append([cstack EXCEPT ![Len(cstack)].at = at], callee)

\* the state of the compilation
C ==
    [source |-> Texts[source], scanner |-> scanner, parser |-> parser,
     current |-> current, chunk |-> compilingChunk, stderr |-> stderr,
     stdout |-> stdout, objects |-> objects, strings |-> strings, hung |-> hung,
     junk |-> junk, called |-> called, turns |-> turns]

\* the step leaves the compilation in state c
Becomes(c) ==
    /\ scanner' = c.scanner
    /\ parser' = c.parser
    /\ current' = c.current
    /\ compilingChunk' = c.chunk
    /\ stderr' = c.stderr
    /\ stdout' = c.stdout
    /\ objects' = c.objects
    /\ strings' = c.strings
    /\ hung' = c.hung
    /\ called' = c.called
    /\ turns' = c.turns + 1
    /\ UNCHANGED <<found, calls, tbl, tblFrom, shadow, argc, file, stdin, junk,
                   exitCode, result, source, vm, history>>

\* compile: while (!match(TOKEN_EOF)) declaration(); endCompiler(); return
Compile ==
    /\ Running("compile", "call")
    /\ IF check(C, "TOKEN_EOF")
       THEN /\ \E d \in {endCompiler(advance(C))} : Becomes(d)
            /\ cstack' = Return
            /\ pc' = "compiled"
       ELSE /\ cstack' = Calls("call", Call_declaration)
            /\ Becomes(C)
            /\ pc' = pc

\* declaration: if (match(TOKEN_VAR)) varDeclaration(); else statement();
Declaration ==
    /\ Running("declaration", "call")
    /\ IF check(C, "TOKEN_VAR")
       THEN /\ \E d \in {advance(C)} : Becomes(d)
            /\ cstack' = Calls("return", Frame("varDeclaration", "call"))
       ELSE /\ Becomes(C)
            /\ cstack' = Calls("return", Frame("statement", "call"))
    /\ pc' = pc

\* declaration: if (parser.panicMode) synchronize();
DeclarationEnd ==
    /\ Running("declaration", "return")
    /\ \E d \in {IF parser.panicMode THEN synchronize(C) ELSE C} : Becomes(d)
    /\ cstack' = Return
    /\ pc' = pc

\* varDeclaration, up to the initializer or, without one, to its end
VarDeclaration ==
    /\ Running("varDeclaration", "call")
    /\ \E r \in {parseVariable(C, "Expect variable name.")} :
          IF check(r.c, "TOKEN_EQUAL")
          THEN /\ \E d \in {advance(r.c)} : Becomes(d)
               /\ cstack' = Append([cstack EXCEPT ![Len(cstack)].at = "return",
                                                  ![Len(cstack)].global = r.constant],
                                   expression)
          ELSE /\ \E d \in {defineVariable(
                                consume(emitByte(r.c, OpCode.OP_NIL), "TOKEN_SEMICOLON",
                                        "Expect ';' after variable declaration."),
                                r.constant)} : Becomes(d)
               /\ cstack' = Return
    /\ pc' = pc

\* varDeclaration, after the initializer
VarDeclarationEnd ==
    /\ Running("varDeclaration", "return")
    /\ \E d \in {defineVariable(
                     consume(C, "TOKEN_SEMICOLON",
                             "Expect ';' after variable declaration."),
                     Top.global)} : Becomes(d)
    /\ cstack' = Return
    /\ pc' = pc

\* statement: printStatement and expressionStatement take its place, block is called
Statement ==
    /\ Running("statement", "call")
    /\ IF check(C, "TOKEN_PRINT")
       THEN /\ \E d \in {advance(C)} : Becomes(d)
            /\ cstack' = Append(Append(Return, Frame("printStatement", "return")),
                                expression)
       ELSE IF check(C, "TOKEN_LEFT_BRACE")
       THEN /\ \E d \in {beginScope(advance(C))} : Becomes(d)
            /\ cstack' = Append([cstack EXCEPT ![Len(cstack)].at = "return",
                                               ![Len(cstack)].entered = current],
                                Frame("block", "call"))
       ELSE /\ Becomes(C)
            /\ cstack' = Append(Append(Return, Frame("expressionStatement", "return")),
                                expression)
    /\ pc' = pc

\* statement, after block(): endScope()
StatementEnd ==
    /\ Running("statement", "return")
    /\ \E d \in {endScope(C)} : Becomes(d)
    /\ cstack' = Return
    /\ pc' = pc

\* printStatement, after expression()
PrintStatementEnd ==
    /\ Running("printStatement", "return")
    /\ \E d \in {emitByte(consume(C, "TOKEN_SEMICOLON", "Expect ';' after value."),
                          OpCode.OP_PRINT)} : Becomes(d)
    /\ cstack' = Return
    /\ pc' = pc

\* expressionStatement, after expression()
ExpressionStatementEnd ==
    /\ Running("expressionStatement", "return")
    /\ \E d \in {emitByte(consume(C, "TOKEN_SEMICOLON", "Expect ';' after expression."),
                          OpCode.OP_POP)} : Becomes(d)
    /\ cstack' = Return
    /\ pc' = pc

\* block: the while, and after it the consume
Block ==
    /\ Running("block", "call")
    /\ IF ~check(C, "TOKEN_RIGHT_BRACE") /\ ~check(C, "TOKEN_EOF")
       THEN /\ Becomes(C)
            /\ cstack' = Calls("call", Call_declaration)
       ELSE /\ \E d \in {consume(C, "TOKEN_RIGHT_BRACE", "Expect '}' after block.")} :
                  Becomes(d)
            /\ cstack' = Return
    /\ pc' = pc

\* the prefix rule parsePrecedence finds after its advance()
PrefixRule == getRule(advance(C).parser.previous.type).prefix

\* the activation of parsePrecedence at its while, its canAssign computed
AtLoop ==
    [cstack EXCEPT ![Len(cstack)].at = "loop",
                   ![Len(cstack)].canAssign = CanAssign(Top.precedence)]

\* parsePrecedence: no prefix rule
ExpectExpression ==
    /\ Running("parsePrecedence", "call")
    /\ PrefixRule = "NULL"
    /\ \E d \in {error(advance(C), "Expect expression.")} : Becomes(d)
    /\ cstack' = Return
    /\ pc' = pc

\* parsePrecedence: the prefix rules that call nothing back
Primary ==
    /\ Running("parsePrecedence", "call")
    /\ PrefixRule \in {"number", "string", "literal"}
    /\ \E d \in {CASE PrefixRule = "number" -> number(advance(C))
                   [] PrefixRule = "string" -> string(advance(C))
                   [] PrefixRule = "literal" -> literal(advance(C))} : Becomes(d)
    /\ cstack' = AtLoop
    /\ pc' = pc

\* parsePrecedence: grouping calls expression()
Grouping ==
    /\ Running("parsePrecedence", "call")
    /\ PrefixRule = "grouping"
    /\ \E d \in {advance(C)} : Becomes(d)
    /\ cstack' = Append(Append(AtLoop, Frame("grouping", "return")), expression)
    /\ pc' = pc

\* grouping, after expression()
GroupingEnd ==
    /\ Running("grouping", "return")
    /\ \E d \in {consume(C, "TOKEN_RIGHT_PAREN", "Expect ')' after expression.")} :
          Becomes(d)
    /\ cstack' = Return
    /\ pc' = pc

\* parsePrecedence: unary calls parsePrecedence(PREC_UNARY)
Unary ==
    /\ Running("parsePrecedence", "call")
    /\ PrefixRule = "unary"
    /\ \E d \in {advance(C)} :
          /\ Becomes(d)
          /\ cstack' = Append(Append(AtLoop,
                                     [Frame("unary", "return") EXCEPT
                                         !.operatorType = d.parser.previous.type]),
                              Call_parsePrecedence(Precedence.PREC_UNARY))
    /\ pc' = pc

\* unary, after its operand
UnaryEnd ==
    /\ Running("unary", "return")
    /\ \E d \in {unary(C, Top.operatorType)} : Becomes(d)
    /\ cstack' = Return
    /\ pc' = pc

\* parsePrecedence: variable, which is namedVariable(parser.previous, canAssign)
Variable ==
    /\ Running("parsePrecedence", "call")
    /\ PrefixRule = "variable"
    /\ \E a \in {advance(C)} :
       \E v \in {namedVariable(a, a.parser.previous)} :
          IF CanAssign(Top.precedence) /\ check(v.c, "TOKEN_EQUAL")
          THEN /\ \E d \in {advance(v.c)} : Becomes(d)
               /\ cstack' = Append(Append(AtLoop,
                                          [Frame("namedVariable", "return") EXCEPT
                                              !.setOp = v.setOp, !.arg = v.arg]),
                                   expression)
          ELSE /\ \E d \in {emitBytes(v.c, v.getOp, v.arg % 256)} : Becomes(d)
               /\ cstack' = AtLoop
    /\ pc' = pc

\* namedVariable, after the expression assigned
NamedVariableEnd ==
    /\ Running("namedVariable", "return")
    /\ \E d \in {emitBytes(C, Top.setOp, Top.arg % 256)} : Becomes(d)
    /\ cstack' = Return
    /\ pc' = pc

\* parsePrecedence: the while, and after it the check for a stray '='
ParsePrecedenceLoop ==
    /\ Running("parsePrecedence", "loop")
    /\ IF Top.precedence <= getRule(parser.current.type).precedence
       THEN \E d \in {advance(C)} :
               /\ Becomes(d)
               /\ cstack' = Append(Append(cstack,
                                          [Frame("binary", "return") EXCEPT
                                              !.operatorType = d.parser.previous.type]),
                                   Call_parsePrecedence(
                                       getRule(d.parser.previous.type).precedence + 1))
       ELSE /\ \E d \in {IF Top.canAssign /\ check(C, "TOKEN_EQUAL")
                         THEN error(advance(C), "Invalid assignment target.")
                         ELSE C} : Becomes(d)
            /\ cstack' = Return
    /\ pc' = pc

\* binary, after its right operand
BinaryEnd ==
    /\ Running("binary", "return")
    /\ \E d \in {binary(C, Top.operatorType)} : Becomes(d)
    /\ cstack' = Return
    /\ pc' = pc

(***************************************************************************)
(* vm.c.  The functions of the VM are operators on the state m of the      *)
(* machine,                                                                *)
(*   [ip, stack, undefined, globals, objects, strings, hung, stdout,       *)
(*    stderr, chunk, junk, status],                                        *)
(* ip the offset vm.ip - vm.chunk->code, stack the slots below             *)
(* vm.stackTop, and status "run" while run() loops, the InterpretResult    *)
(* once it has returned, "undefined" once the machine has read or written  *)
(* memory that is not its own (undefined then says where): nothing the     *)
(* process does after that is modelled.                                    *)
(***************************************************************************)
STACK_MAX == 256

Live(m) == m.status = "run"

\* the machine leaves the behaviour the language defines
Undefined(m, where) ==
    IF Live(m) THEN [m EXCEPT !.status = "undefined", !.undefined = where] ELSE m

resetStack(m) == [m EXCEPT !.stack = <<>>]

\* what runtimeError prints: the message, its argument, "[line L] in script"
RuntimeErrorLine(format, chars, line) ==
    [line |-> line, at |-> "script", lexeme |-> chars, message |-> format]

\* runtimeError(format, chars): the instruction is the byte read last
runtimeError(m, format, chars) ==
    resetStack([m EXCEPT
        !.stderr = Append(@, RuntimeErrorLine(format, chars,
                                              Load(m.chunk.lines, m.ip - 1, m.junk)))])

\* runtimeError(...) without the return that follows it
Fail_GoesOn(m, format, chars) == runtimeError(m, format, chars)

\* runtimeError(...); return INTERPRET_RUNTIME_ERROR;
Fail(m, format, chars) ==
    [runtimeError(m, format, chars) EXCEPT !.status = "INTERPRET_RUNTIME_ERROR"]

\* *vm.stackTop = value; vm.stackTop++;
push(m, value) ==
    IF ~Live(m) THEN m
    ELSE IF Len(m.stack) >= STACK_MAX THEN Undefined(m, "push on a full stack")
    ELSE [m EXCEPT !.stack = Append(@, value)]

\* vm.stackTop--; the value returned is peek(m, 0) before
pop(m) ==
    IF ~Live(m) THEN m
    ELSE IF m.stack = <<>> THEN Undefined(m, "pop of an empty stack")
    ELSE [m EXCEPT !.stack = SubSeq(@, 1, Len(@) - 1)]

\* vm.stackTop[-1 - distance] is a slot of the stack
Peekable(m, distance) == Len(m.stack) - distance >= 1

peek(m, distance) == m.stack[Len(m.stack) - distance]

isFalsey(value) == IS_NIL(value) \/ (IS_BOOL(value) /\ ~AS_BOOL(value))

\* concatenate()
concatenate(m) ==
    IF ~Peekable(m, 1) THEN Undefined(m, "pop of an empty stack")
    ELSE LET b == m.objects[peek(m, 0).as]
             a == m.objects[peek(m, 1).as]
             length == a.length + b.length
             chars == SubSeq(a.chars, 1, a.length) \o SubSeq(b.chars, 1, b.length)
             r == takeString(m.objects, m.strings, chars, length)
         IN  push([pop(pop(m)) EXCEPT !.objects = r.objects, !.strings = r.strings,
                                      !.hung = r.hang],
                  OBJ_VAL(r.string))

\* READ_BYTE(), handed to Then with the machine after it
READ_BYTE(m, Then(_, _)) ==
    IF ~InBounds(m.chunk.code, m.ip) THEN Undefined(m, "read past the code")
    ELSE Then([m EXCEPT !.ip = @ + 1], Load(m.chunk.code, m.ip, m.junk))

\* READ_CONSTANT()
READ_CONSTANT(m, Then(_, _)) ==
    READ_BYTE(m, LAMBDA n, index :
        IF index >= Len(n.chunk.constants)
        THEN Undefined(n, "read past the constants")
        ELSE Then(n, n.chunk.constants[index + 1]))

\* READ_STRING(): the ObjString *
READ_STRING(m, Then(_, _)) ==
    READ_CONSTANT(m, LAMBDA n, constant :
        IF ~IS_OBJ(constant) THEN Undefined(n, "a Value that holds no object read as one")
        ELSE Then(n, constant.as))

\* BINARY_OP(valueType, op)
BINARY_OP(m, valueType(_), op(_, _)) ==
    IF ~Peekable(m, 0) THEN Undefined(m, "read below the stack")
    ELSE IF ~IS_NUMBER(peek(m, 0)) THEN Fail(m, "Operands must be numbers.", <<>>)
    ELSE IF ~Peekable(m, 1) THEN Undefined(m, "read below the stack")
    ELSE IF ~IS_NUMBER(peek(m, 1)) THEN Fail(m, "Operands must be numbers.", <<>>)
    ELSE push(pop(pop(m)), valueType(op(peek(m, 1).as, peek(m, 0).as)))

\* case OP_CONSTANT
OP_CONSTANT(m) == READ_CONSTANT(m, LAMBDA n, constant : push(n, constant))

\* case OP_GET_GLOBAL
OP_GET_GLOBAL(m) ==
    READ_STRING(m, LAMBDA n, name :
        LET r == tableGet(n.objects, n.globals, name)
        IN  IF r.hang THEN [n EXCEPT !.hung = TRUE]
            ELSE IF ~r.found
                 THEN Fail(n, "Undefined variable '%s'.", n.objects[name].chars)
                 ELSE push(n, r.value))

\* case OP_DEFINE_GLOBAL
OP_DEFINE_GLOBAL(m) ==
    READ_STRING(m, LAMBDA n, name :
        IF ~Peekable(n, 0) THEN Undefined(n, "read below the stack")
        ELSE LET r == tableSet(n.objects, n.globals, name, peek(n, 0))
             IN  pop([n EXCEPT !.globals = r.table, !.hung = r.hang]))

\* case OP_SET_GLOBAL without tableDelete(&vm.globals, name)
OP_SET_GLOBAL_Kept(m) ==
    READ_STRING(m, LAMBDA n, name :
        IF ~Peekable(n, 0) THEN Undefined(n, "read below the stack")
        ELSE LET r == tableSet(n.objects, n.globals, name, peek(n, 0))
                 set == [n EXCEPT !.globals = r.table, !.hung = r.hang]
             IN  IF r.hang THEN set
                 ELSE IF r.isNewKey
                      THEN Fail(set, "Undefined variable '%s'.", n.objects[name].chars)
                      ELSE set)

\* case OP_SET_GLOBAL
OP_SET_GLOBAL(m) ==
    READ_STRING(m, LAMBDA n, name :
        IF ~Peekable(n, 0) THEN Undefined(n, "read below the stack")
        ELSE LET r == tableSet(n.objects, n.globals, name, peek(n, 0))
                 set == [n EXCEPT !.globals = r.table, !.hung = r.hang]
                 d == tableDelete(n.objects, r.table, name)
             IN  IF r.hang THEN set
                 ELSE IF r.isNewKey
                      THEN Fail([set EXCEPT !.globals = d.table, !.hung = d.hang],
                                "Undefined variable '%s'.", n.objects[name].chars)
                      ELSE set)

\* case OP_EQUAL
OP_EQUAL(m) ==
    IF ~Peekable(m, 1) THEN Undefined(m, "pop of an empty stack")
    ELSE push(pop(pop(m)), BOOL_VAL(valuesEqual(peek(m, 1), peek(m, 0))))

\* case OP_ADD in which a string added to what is no string gives nil
OP_ADD_Mixed(m) ==
    IF ~Peekable(m, 0) THEN Undefined(m, "read below the stack")
    ELSE IF IS_STRING(m.objects, peek(m, 0))
         THEN IF ~Peekable(m, 1) THEN Undefined(m, "read below the stack")
              ELSE IF IS_STRING(m.objects, peek(m, 1)) THEN concatenate(m)
              ELSE push(pop(pop(m)), NIL_VAL)
    ELSE IF IS_NUMBER(peek(m, 0))
         THEN IF ~Peekable(m, 1) THEN Undefined(m, "read below the stack")
              ELSE IF IS_NUMBER(peek(m, 1))
                   THEN push(pop(pop(m)),
                             NUMBER_VAL(Sum(peek(m, 1).as, peek(m, 0).as)))
              ELSE Fail(m, "Operands must be two numbers or two strings.", <<>>)
    ELSE Fail(m, "Operands must be two numbers or two strings.", <<>>)

\* case OP_ADD
OP_ADD(m) ==
    IF ~Peekable(m, 0) THEN Undefined(m, "read below the stack")
    ELSE IF IS_STRING(m.objects, peek(m, 0))
         THEN IF ~Peekable(m, 1) THEN Undefined(m, "read below the stack")
              ELSE IF IS_STRING(m.objects, peek(m, 1)) THEN concatenate(m)
              ELSE Fail(m, "Operands must be two numbers or two strings.", <<>>)
    ELSE IF IS_NUMBER(peek(m, 0))
         THEN IF ~Peekable(m, 1) THEN Undefined(m, "read below the stack")
              ELSE IF IS_NUMBER(peek(m, 1))
                   THEN push(pop(pop(m)),
                             NUMBER_VAL(Sum(peek(m, 1).as, peek(m, 0).as)))
              ELSE Fail(m, "Operands must be two numbers or two strings.", <<>>)
    ELSE Fail(m, "Operands must be two numbers or two strings.", <<>>)

\* case OP_NOT
OP_NOT(m) ==
    IF ~Peekable(m, 0) THEN Undefined(m, "pop of an empty stack")
    ELSE push(pop(m), BOOL_VAL(isFalsey(peek(m, 0))))

\* case OP_NEGATE
OP_NEGATE(m) ==
    IF ~Peekable(m, 0) THEN Undefined(m, "read below the stack")
    ELSE IF ~IS_NUMBER(peek(m, 0)) THEN Fail(m, "Operand must be a number.", <<>>)
    ELSE push(pop(m), NUMBER_VAL(Minus(peek(m, 0).as)))

\* case OP_PRINT
OP_PRINT(m) ==
    IF ~Peekable(m, 0) THEN Undefined(m, "pop of an empty stack")
    ELSE [pop(m) EXCEPT
             !.stdout = Append(@, printValue(m.objects, peek(m, 0)) \o "\n")]

\* case OP_RETURN
OP_RETURN(m) == [m EXCEPT !.status = "INTERPRET_OK"]

\* what DEBUG_TRACE_EXECUTION writes before an instruction: the stack and
\* the instruction, of which the line keeps nothing but that it was written
TraceLine == "(trace)\n"

(***************************************************************************)
(* vm.c interpret and main.c.  pc is "main" at the start of main, "repl"   *)
(* at the head of repl's loop, "runFile" at the start of runFile,          *)
(* "interpret" at the start of interpret, "compile" inside compile,        *)
(* "compiled" when compile has returned to interpret, "runFileEnd" when    *)
(* interpret has returned to runFile, and "exit" when the process is gone. *)
(***************************************************************************)
NoExit == -1

\* initVM()
InitVM ==
    /\ vm' = [vm EXCEPT !.stack = <<>>]
    /\ objects' = <<>>
    /\ tbl' = initTable
    /\ strings' = initTable

\* freeVM()
FreeVM ==
    /\ tbl' = freeTable(tbl)
    /\ strings' = freeTable(strings)
    /\ objects' = <<>>

\* where interpret returns to: repl's loop, or runFile
Caller == IF argc = 1 THEN "repl" ELSE "runFileEnd"

\* main, up to the call of repl or runFile, or to exit(64)
Main ==
    /\ pc = "main"
    /\ stdout' = Append(stdout, "Hello\n")
    /\ InitVM
    /\ IF argc = 1 THEN pc' = "repl" /\ UNCHANGED <<stderr, exitCode>>
       ELSE IF argc = 2 THEN pc' = "runFile" /\ UNCHANGED <<stderr, exitCode>>
       ELSE /\ stderr' = Append(stderr, PlainLine("Usage: clox [path]\n"))
            /\ exitCode' = 64
            /\ pc' = "exit"
    /\ UNCHANGED <<found, calls, hung, tblFrom, shadow, argc, file, stdin, junk,
                   result, source, scanner, parser, current, compilingChunk, cstack,
                   called, history, turns>>

\* repl: one turn of the loop up to the call of interpret, or out of the loop
\* and through the rest of main
Repl ==
    /\ pc = "repl"
    /\ IF stdin = <<>>
       THEN /\ stdout' = Append(Append(stdout, "> "), "\n")
            /\ FreeVM
            /\ exitCode' = 0
            /\ pc' = "exit"
            /\ UNCHANGED <<stdin, source>>
       ELSE /\ stdout' = Append(stdout, "> ")
            /\ source' = Head(stdin)
            /\ stdin' = Tail(stdin)
            /\ pc' = "interpret"
            /\ UNCHANGED <<objects, strings, tbl, exitCode>>
    /\ UNCHANGED <<found, calls, hung, tblFrom, shadow, argc, file, junk, result,
                   stderr, scanner, parser, current, compilingChunk, cstack, vm,
                   called, history, turns>>

\* runFile: readFile(path), up to the call of interpret
RunFile ==
    /\ pc = "runFile"
    /\ IF file.readable
       THEN /\ source' = file.source
            /\ pc' = "interpret"
            /\ UNCHANGED <<stderr, exitCode>>
       ELSE /\ stderr' = Append(stderr, PlainLine("Could not open file.\n"))
            /\ exitCode' = 74
            /\ pc' = "exit"
            /\ UNCHANGED source
    /\ UNCHANGED <<objects, strings, found, calls, hung, tbl, tblFrom, shadow,
                   argc, file, stdin, junk, result, stdout, scanner, parser,
                   current, compilingChunk, cstack, vm, called, history, turns>>

\* what the process is when interpret is called
Entered ==
    [stdout |-> Len(stdout), stderr |-> Len(stderr), globals |-> tbl,
     stack |-> vm.stack]

\* the call of interpret that returns value, having written stdoutNow and
\* stderrNow in all
Returned(value, stdoutNow, stderrNow) ==
    [source |-> source, called |-> called, result |-> value,
     stdout |-> SubSeq(stdoutNow, called.stdout + 1, Len(stdoutNow)),
     stderr |-> SubSeq(stderrNow, called.stderr + 1, Len(stderrNow))]

\* interpret whose compile leaves parser.hadError as the call before left it
Interpret_KeepsError ==
    /\ pc = "interpret"
    /\ \E d \in {advance([C EXCEPT !.called = Entered,
                                   !.turns = 0,
                                   !.scanner = 1,
                                   !.current = initCompiler,
                                   !.chunk = initChunk,
                                   !.parser.panicMode = FALSE])} : Becomes(d)
    /\ cstack' = <<Frame("compile", "call")>>
    /\ pc' = "compile"

\* interpret: initChunk, and compile up to its loop
Interpret ==
    /\ pc = "interpret"
    /\ \E d \in {advance([C EXCEPT !.called = Entered,
                                   !.turns = 0,
                                   !.scanner = 1,
                                   !.current = initCompiler,
                                   !.chunk = initChunk,
                                   !.parser.hadError = FALSE,
                                   !.parser.panicMode = FALSE])} : Becomes(d)
    /\ cstack' = <<Frame("compile", "call")>>
    /\ pc' = "compile"

\* runFile with the two exit codes the wrong way round
ExitCodeOf_Swapped(interpretResult) ==
    IF interpretResult = "INTERPRET_COMPILE_ERROR" THEN 70
    ELSE IF interpretResult = "INTERPRET_RUNTIME_ERROR" THEN 65
    ELSE 0

\* what runFile exits with after interpret
ExitCodeOf(interpretResult) ==
    IF interpretResult = "INTERPRET_COMPILE_ERROR" THEN 65
    ELSE IF interpretResult = "INTERPRET_RUNTIME_ERROR" THEN 70
    ELSE 0

\* interpret, when compile returns false
CompileError ==
    /\ pc = "compiled"
    /\ parser.hadError
    /\ compilingChunk' = freeChunk(compilingChunk)
    /\ result' = "INTERPRET_COMPILE_ERROR"
    /\ history' = Append(history, Returned("INTERPRET_COMPILE_ERROR", stdout, stderr))
    /\ pc' = Caller
    /\ UNCHANGED <<objects, strings, found, calls, hung, tbl, tblFrom, shadow,
                   argc, file, stdin, junk, exitCode, stdout, stderr, source,
                   scanner, parser, current, cstack, vm, called, turns>>

\* interpret that runs the chunk whatever compile returns
Run_Always ==
    /\ pc = "compiled"
    /\ vm' = [vm EXCEPT !.ip = 0]
    /\ pc' = "run"
    /\ UNCHANGED <<objects, strings, found, calls, hung, tbl, tblFrom, shadow,
                   argc, file, stdin, junk, exitCode, result, stdout, stderr,
                   source, scanner, parser, current, compilingChunk, cstack,
                   called, history, turns>>

\* interpret, when compile returns true: vm.chunk = &chunk; vm.ip =
\* vm.chunk->code; and run() is called
Run ==
    /\ pc = "compiled"
    /\ ~parser.hadError
    /\ vm' = [vm EXCEPT !.ip = 0]
    /\ pc' = "run"
    /\ UNCHANGED <<objects, strings, found, calls, hung, tbl, tblFrom, shadow,
                   argc, file, stdin, junk, exitCode, result, stdout, stderr,
                   source, scanner, parser, current, compilingChunk, cstack,
                   called, history, turns>>

\* the state of the machine
M ==
    [ip |-> vm.ip, stack |-> vm.stack, undefined |-> vm.undefined,
     globals |-> tbl, objects |-> objects, strings |-> strings, hung |-> hung,
     stdout |-> stdout, stderr |-> stderr, chunk |-> compilingChunk,
     junk |-> junk, status |-> "run"]

\* the step leaves the machine in state m; when run() has returned, the rest
\* of interpret follows: freeChunk(&chunk); return result;
Ends(m) ==
    /\ vm' = [ip |-> m.ip, stack |-> m.stack, undefined |-> m.undefined]
    /\ tbl' = m.globals
    /\ objects' = m.objects
    /\ strings' = m.strings
    /\ hung' = m.hung
    /\ stdout' = m.stdout
    /\ stderr' = m.stderr
    /\ IF m.status = "run"
       THEN pc' = "run" /\ UNCHANGED <<result, compilingChunk, history>>
       ELSE IF m.status = "undefined"
            THEN pc' = "undefined" /\ UNCHANGED <<result, compilingChunk, history>>
       ELSE /\ result' = m.status
            /\ compilingChunk' = freeChunk(compilingChunk)
            /\ history' = Append(history, Returned(m.status, m.stdout, m.stderr))
            /\ pc' = Caller
    /\ UNCHANGED <<found, calls, tblFrom, shadow, argc, file, stdin, junk, exitCode,
                   source, scanner, parser, current, cstack, called, turns>>

\* run() is at an instruction among opcodes
At(opcodes) ==
    /\ pc = "run"
    /\ ~hung
    /\ InBounds(compilingChunk.code, vm.ip)
    /\ Load(compilingChunk.code, vm.ip, junk) \in opcodes

\* the machine once the trace is written and the instruction read
Fetched == [M EXCEPT !.stdout = Append(@, TraceLine), !.ip = @ + 1]

\* vm.ip has left the code: READ_BYTE() reads memory that is not the chunk's
RunOff ==
    /\ pc = "run"
    /\ ~hung
    /\ ~InBounds(compilingChunk.code, vm.ip)
    /\ Ends(Undefined([M EXCEPT !.stdout = Append(@, TraceLine)],
                      "read past the code"))

\* switch (instruction = READ_BYTE()): the case of the instruction read; the
\* switch has no case for OP_GET_LOCAL, none for OP_SET_LOCAL and no default,
\* so that after any other byte the loop goes on with the next one
Instruction(m, instruction) ==
    CASE instruction = OpCode.OP_CONSTANT -> OP_CONSTANT(m)
      [] instruction = OpCode.OP_NIL -> push(m, NIL_VAL)
      [] instruction = OpCode.OP_TRUE -> push(m, BOOL_VAL(TRUE))
      [] instruction = OpCode.OP_FALSE -> push(m, BOOL_VAL(FALSE))
      [] instruction = OpCode.OP_POP -> pop(m)
      [] instruction = OpCode.OP_GET_GLOBAL -> OP_GET_GLOBAL(m)
      [] instruction = OpCode.OP_DEFINE_GLOBAL -> OP_DEFINE_GLOBAL(m)
      [] instruction = OpCode.OP_SET_GLOBAL -> OP_SET_GLOBAL(m)
      [] instruction = OpCode.OP_EQUAL -> OP_EQUAL(m)
      [] instruction = OpCode.OP_GREATER ->
            BINARY_OP(m, BOOL_VAL, LAMBDA a, b : Less(b, a))
      [] instruction = OpCode.OP_LESS -> BINARY_OP(m, BOOL_VAL, Less)
      [] instruction = OpCode.OP_ADD -> OP_ADD(m)
      [] instruction = OpCode.OP_SUBTRACT ->
            BINARY_OP(m, NUMBER_VAL, LAMBDA a, b : Sum(a, Minus(b)))
      [] instruction = OpCode.OP_MULTIPLY -> BINARY_OP(m, NUMBER_VAL, Product)
      [] instruction = OpCode.OP_DIVIDE -> BINARY_OP(m, NUMBER_VAL, Quotient)
      [] instruction = OpCode.OP_NOT -> OP_NOT(m)
      [] instruction = OpCode.OP_NEGATE -> OP_NEGATE(m)
      [] instruction = OpCode.OP_PRINT -> OP_PRINT(m)
      [] instruction = OpCode.OP_RETURN -> OP_RETURN(m)
      [] OTHER -> m

\* one turn of run()'s loop
Step ==
    /\ At(0..UINT8_MAX)
    /\ \E m \in {Instruction(Fetched, Load(compilingChunk.code, vm.ip, junk))} :
          Ends(m)

\* runFile, after interpret, and through the rest of main
RunFileEnd ==
    /\ pc = "runFileEnd"
    /\ exitCode' = ExitCodeOf(result)
    /\ IF result \in {"INTERPRET_COMPILE_ERROR", "INTERPRET_RUNTIME_ERROR"}
       THEN UNCHANGED <<objects, strings, tbl>>
       ELSE FreeVM
    /\ pc' = "exit"
    /\ UNCHANGED <<found, calls, hung, tblFrom, shadow, argc, file, stdin, junk,
                   result, stdout, stderr, source, scanner, parser, current,
                   compilingChunk, cstack, vm, called, history, turns>>

(***************************************************************************)
(* Spec: the process from the start of main to its exit, for every command *)
(* line, file and input.                                                   *)
(***************************************************************************)
Init ==
    /\ argc \in 1..3
    /\ file \in IF argc = 2
                THEN {NoFile} \cup {[readable |-> TRUE, source |-> p] : p \in Files}
                ELSE {NoFile}
    /\ stdin \in IF argc = 1 THEN Inputs(MaxLines) ELSE {<<>>}
    /\ junk \in 0..MaxJunk
    /\ pc = "main"
    /\ exitCode = NoExit
    /\ result = "none"
    /\ stdout = <<>>
    /\ stderr = <<>>
    /\ source = NULL
    /\ scanner = 0
    /\ parser = [current |-> NoToken, previous |-> NoToken,
                 hadError |-> FALSE, panicMode |-> FALSE]
    /\ current = initCompiler
    /\ compilingChunk = initChunk
    /\ cstack = <<>>
    /\ vm = [ip |-> 0, stack |-> <<>>, undefined |-> ""]
    /\ called = [stdout |-> 0, stderr |-> 0, globals |-> initTable, stack |-> <<>>]
    /\ history = <<>>
    /\ turns = 0
    /\ objects = <<>>
    /\ strings = initTable
    /\ hung = FALSE
    /\ tbl = initTable
    /\ tblFrom = initTable
    /\ shadow = <<>>
    /\ found = FALSE
    /\ calls = {}

Next ==
    \/ Main
    \/ Repl
    \/ RunFile
    \/ Interpret
    \/ Compile
    \/ Declaration
    \/ DeclarationEnd
    \/ VarDeclaration
    \/ VarDeclarationEnd
    \/ Statement
    \/ StatementEnd
    \/ PrintStatementEnd
    \/ ExpressionStatementEnd
    \/ Block
    \/ ExpectExpression
    \/ Primary
    \/ Grouping
    \/ GroupingEnd
    \/ Unary
    \/ UnaryEnd
    \/ Variable
    \/ NamedVariableEnd
    \/ ParsePrecedenceLoop
    \/ BinaryEnd
    \/ CompileError
    \/ Run
    \/ RunOff
    \/ Step
    \/ RunFileEnd

Spec == Init /\ [][Next]_vars

(***************************************************************************)
(* C4  File-runner exit code.                                              *)
(***************************************************************************)
\* C4: run with exactly one argument (argc = 2), the process that has got a
\* result from interpret exits 65 if the result is COMPILE_ERROR, 70 if it is
\* RUNTIME_ERROR and 0 if it is OK; run with more than one argument
\* (argc > 2) it exits 64, and at no point has it entered interpret: no
\* source is handed over, nothing is compiled, no result comes back.
C4_ExitCodes ==
    /\ (pc = "exit" /\ argc = 2 /\ file.readable) =>
          /\ result = "INTERPRET_COMPILE_ERROR" => exitCode = 65
          /\ result = "INTERPRET_RUNTIME_ERROR" => exitCode = 70
          /\ result = "INTERPRET_OK" => exitCode = 0
          /\ result \in {"INTERPRET_COMPILE_ERROR", "INTERPRET_RUNTIME_ERROR",
                         "INTERPRET_OK"}
    /\ argc > 2 =>
          /\ pc \in {"main", "exit"}
          /\ pc = "exit" => exitCode = 64
          /\ result = "none"
          /\ source = NULL
          /\ cstack = <<>>
    /\ pc # "exit" => exitCode = NoExit

\* a script that does not compile has made the process exit with 65
C4_Witness ==
    /\ pc = "exit"
    /\ argc = 2
    /\ result = "INTERPRET_COMPILE_ERROR"
    /\ exitCode = 65
    /\ stderr # <<>>

(***************************************************************************)
(* What the claims about the compiler share.                               *)
(***************************************************************************)
\* the bytes written to a chunk's code, in the order written
Emitted(ch) == SelectSeq(ch.code, LAMBDA b : b # Uninit)

\* the locals that bear the name of the token, by their slot + 1
LocalsNamed(token) ==
    {i \in 1..current.localCount : current.locals[i].name.lexeme = token.lexeme}

\* the last declared of them
Innermost(token) ==
    CHOOSE i \in LocalsNamed(token) : \A j \in LocalsNamed(token) : j <= i

\* the step compiles an identifier that names a local variable which is
\* declared and not yet initialized, and hides no local declared after it
ReadsOwnInitializer ==
    /\ Running("parsePrecedence", "call")
    /\ parser.current.type = "TOKEN_IDENTIFIER"
    /\ LocalsNamed(parser.current) # {}
    /\ current.locals[Innermost(parser.current)].depth = -1

\* no error is pending when the step begins, and the token the step scans is
\* no lexical error: an error the step detects is printed
Unsuppressed ==
    /\ ~parser.panicMode
    /\ scanToken(Texts[source], scanner).type # "TOKEN_ERROR"

\* the step reports the message at the token: the compilation has failed, and
\* the line is printed where nothing suppresses it
Reports(token, message) ==
    /\ parser'.hadError
    /\ parser'.panicMode
    /\ Unsuppressed => stderr' = Append(stderr, ErrorLine(token, message))

\* a compilation that has failed stays failed, and interpret then returns
\* INTERPRET_COMPILE_ERROR without running anything
StaysFailed ==
    /\ (pc = "compile" /\ parser.hadError) =>
          (parser'.hadError /\ pc' \in {"compile", "compiled"})
    /\ (pc = "compiled" /\ parser.hadError) =>
          (result' = "INTERPRET_COMPILE_ERROR" /\ stdout' = stdout)

OwnInitializerMessage == "Can't read local variable in its own initializer."

(***************************************************************************)
(* C5  Shadowing in an initializer.                                        *)
(***************************************************************************)
\* C5 as the claim has it: the script
\*   var a = 10; { var a = a + 1; print a; } print a;
\* compiles without error, the a of the initializer is read as the global a of
\* the enclosing scope, and run from a file it makes the process exit with 0.
C5_Original ==
    /\ (pc = "compiled" /\ Interprets(ShadowScript)) =>
          /\ ~parser.hadError
          /\ stderr = <<>>
          /\ SubSeq(Emitted(compilingChunk), 5, 6) = <<OpCode.OP_GET_GLOBAL, 0>>
    /\ (pc = "exit" /\ argc = 2 /\ Interprets(ShadowScript)) =>
          (result # "INTERPRET_COMPILE_ERROR" /\ exitCode # 65)

\* C5, amended: in a nested block, an identifier in the initializer of
\* `var a = ...;` that names a resolves to the local being declared also when
\* an enclosing scope declares a: the compiler reports "Can't read local
\* variable in its own initializer." and the compilation fails.  The script
\*   var a = 10; { var a = a + 1; print a; } print a;
\* reads slot 0, the inner a, prints that one error and nothing else, and
\* interpret returns INTERPRET_COMPILE_ERROR;
\*   { var a = 1; { var a = a; } }
\* reads slot 1, the inner a, not slot 0, with the same error.
C5_Amended ==
    [][/\ (ReadsOwnInitializer /\ Cardinality(LocalsNamed(parser.current)) > 1) =>
             Reports(parser.current, OwnInitializerMessage)
       /\ StaysFailed
       /\ ((pc = "compiled" /\ Interprets(ShadowScript)) =>
             /\ parser.hadError
             /\ stderr = <<ErrorLine(Name(97), OwnInitializerMessage)>>
             /\ SubSeq(Emitted(compilingChunk), 5, 6) = <<OpCode.OP_GET_LOCAL, 0>>)'
       /\ ((pc = "compiled" /\ Interprets(NestedScript)) =>
             /\ parser.hadError
             /\ stderr = <<ErrorLine(Name(97), OwnInitializerMessage)>>
             /\ SubSeq(Emitted(compilingChunk), 3, 4) = <<OpCode.OP_GET_LOCAL, 1>>)'
       /\ ((pc = "exit" /\ argc = 2 /\ Interprets(ShadowScript)) =>
             /\ result = "INTERPRET_COMPILE_ERROR"
             /\ stdout = <<"Hello\n">>)'
      ]_vars

\* the script of the claim, run from a file, has failed to compile
C5_Witness ==
    /\ pc = "exit"
    /\ argc = 2
    /\ Interprets(ShadowScript)
    /\ result = "INTERPRET_COMPILE_ERROR"
    /\ stderr = <<ErrorLine(Name(97), OwnInitializerMessage)>>

(***************************************************************************)
(* C6  Own-initializer read.                                               *)
(***************************************************************************)
\* C6: when the compiler, at scope depth > 0, comes to an identifier that
\* names the local being declared and no other local, it reports "Can't read
\* local variable in its own initializer." (printed unless an earlier error
\* has the parser in panic mode), and the compilation fails: compile returns
\* false and interpret INTERPRET_COMPILE_ERROR.  { var x = x; } prints exactly
\* that error, at 'x'.
C6_OwnInitializer ==
    [][/\ (ReadsOwnInitializer /\ Cardinality(LocalsNamed(parser.current)) = 1) =>
             (current.scopeDepth > 0 /\ Reports(parser.current, OwnInitializerMessage))
       /\ StaysFailed
       /\ ((pc = "compiled" /\ Interprets(OwnInitializerScript)) =>
             /\ parser.hadError
             /\ stderr = <<ErrorLine(Name(120), OwnInitializerMessage)>>)'
       /\ ((pc = "exit" /\ argc = 2 /\ Interprets(OwnInitializerScript)) =>
             result = "INTERPRET_COMPILE_ERROR")'
      ]_vars

\* { var x = x; } has been compiled and the error printed
C6_Witness ==
    /\ pc = "compiled"
    /\ Interprets(OwnInitializerScript)
    /\ parser.hadError
    /\ stderr = <<ErrorLine(Name(120), OwnInitializerMessage)>>

(***************************************************************************)
(* C7  Invalid assignment target.                                          *)
(***************************************************************************)
InvalidTargetMessage == "Invalid assignment target."

\* the step prints the message
Prints(message) ==
    /\ Len(stderr') = Len(stderr) + 1
    /\ stderr'[Len(stderr')].message = message

\* the step compiles an identifier that an '=' follows
IdentifierThenEqual ==
    /\ Running("parsePrecedence", "call")
    /\ parser.current.type = "TOKEN_IDENTIFIER"
    /\ scanToken(Texts[source], scanner).type = "TOKEN_EQUAL"

\* C7: when parsePrecedence, called at assignment level, has parsed its
\* expression and finds '=' next, it reports "Invalid assignment target." at
\* the '=' and the compilation fails; an identifier parsed at assignment level
\* (canAssign true) with '=' next takes the '=' as its assignment and the step
\* prints no such error; an identifier parsed at a tighter level leaves the
\* '=' where it is.  a + b = c; and (a) = 1; print exactly that error;
\* a = b = 1; compiles to two OP_SET_GLOBAL without any error.
C7_InvalidTarget ==
    [][/\ (/\ Running("parsePrecedence", "loop")
           /\ Top.precedence <= Precedence.PREC_ASSIGNMENT
           /\ parser.current.type = "TOKEN_EQUAL") =>
             (Reports(parser.current, InvalidTargetMessage) /\ cstack' = Return)
       /\ (IdentifierThenEqual /\ Top.precedence <= Precedence.PREC_ASSIGNMENT) =>
             /\ Len(cstack') = Len(cstack) + 2
             /\ cstack'[Len(cstack) + 1].fn = "namedVariable"
             /\ ~Prints(InvalidTargetMessage)
       /\ (IdentifierThenEqual /\ Top.precedence > Precedence.PREC_ASSIGNMENT) =>
             /\ parser'.current.type = "TOKEN_EQUAL"
             /\ Len(cstack') = Len(cstack)
       /\ StaysFailed
       /\ ((pc = "compiled" /\ (Interprets(TargetScript) \/ Interprets(GroupTargetScript))) =>
             /\ parser.hadError
             /\ stderr = <<ErrorLine(Mark("TOKEN_EQUAL"), InvalidTargetMessage)>>)'
       /\ ((pc = "compiled" /\ Interprets(AssignScript)) =>
             /\ ~parser.hadError
             /\ stderr = <<>>
             /\ Emitted(compilingChunk) =
                    <<OpCode.OP_CONSTANT, 2, OpCode.OP_SET_GLOBAL, 1,
                      OpCode.OP_SET_GLOBAL, 0, OpCode.OP_POP, OpCode.OP_RETURN>>)'
      ]_vars

\* a + b = c; has been compiled and the error printed
C7_Witness ==
    /\ pc = "compiled"
    /\ Interprets(TargetScript)
    /\ parser.hadError
    /\ stderr = <<ErrorLine(Mark("TOKEN_EQUAL"), InvalidTargetMessage)>>

(***************************************************************************)
(* C8  Too many constants.                                                 *)
(***************************************************************************)
TooManyConstantsMessage == "Too many constants in one chunk."

\* the step calls makeConstant: these steps call it once, the others never
CallsMakeConstant ==
    /\ pc = "compile"
    /\ Len(compilingChunk'.constants) = Len(compilingChunk.constants) + 1

\* the token the constant comes from is the one the step begins at
FromCurrent ==
    IF Top.fn = "varDeclaration" THEN parser.current.type = "TOKEN_IDENTIFIER"
    ELSE parser.current.type \in {"TOKEN_NUMBER", "TOKEN_STRING", "TOKEN_IDENTIFIER"}

\* code is n times OP_CONSTANT i, OP_POP, the operand i being Operand[i], and OP_RETURN
ConstantStatements(code, n, Operand(_)) ==
    /\ Len(code) = 3 * n + 1
    /\ \A k \in 0..(n - 1) :
          /\ code[3 * k + 1] = OpCode.OP_CONSTANT
          /\ code[3 * k + 2] = Operand(k)
          /\ code[3 * k + 3] = OpCode.OP_POP
    /\ code[3 * n + 1] = OpCode.OP_RETURN

\* C8: a call of makeConstant on a pool of 256 entries (or more) reports "Too
\* many constants in one chunk." (printed unless an earlier error has the
\* parser in panic mode) and returns 0, and the compilation fails; a call on
\* a pool of n < 256 entries prints no such error and returns n.  The source
\* of 256 statements `1;` compiles without error to OP_CONSTANT 0 .. 255 in
\* order; with more statements each further one prints the error and
\* compiles to OP_CONSTANT 0.
C8_TooManyConstants ==
    [][/\ CallsMakeConstant =>
             IF Len(compilingChunk.constants) >= UINT8_COUNT
             THEN /\ parser'.hadError
                  /\ parser'.panicMode
                  /\ (Unsuppressed /\ FromCurrent) =>
                        stderr' = Append(stderr, ErrorLine(parser.current,
                                                           TooManyConstantsMessage))
             ELSE ~Prints(TooManyConstantsMessage)
       /\ StaysFailed
       /\ (pc = "compile" =>
             LET made == makeConstant(C, NIL_VAL)
                 n == Len(compilingChunk.constants)
             IN  /\ made.constant = IF n < UINT8_COUNT THEN n ELSE 0
                 /\ n >= UINT8_COUNT => made.c.parser.hadError
                 /\ n < UINT8_COUNT => made.c.stderr = stderr)'
       /\ ((pc = "compiled" /\ Interprets(FullPool)) =>
             /\ ~parser.hadError
             /\ stderr = <<>>
             /\ Len(compilingChunk.constants) = UINT8_COUNT
             /\ ConstantStatements(Emitted(compilingChunk), UINT8_COUNT,
                                   LAMBDA k : k))'
       /\ ((pc = "compiled" /\ Interprets(OverfullPool)) =>
             /\ parser.hadError
             /\ stderr = [i \in 1..Beyond |->
                            ErrorLine(Number(<<49>>, 1), TooManyConstantsMessage)]
             /\ ConstantStatements(Emitted(compilingChunk), UINT8_COUNT + Beyond,
                                   LAMBDA k : IF k < UINT8_COUNT THEN k ELSE 0))'
       /\ ((pc = "compiled" /\ Interprets(FullPoolVarOne)) => parser.hadError)'
      ]_vars

\* the 257th constant has been refused, at the number it was made for
C8_Witness ==
    /\ pc = "compile"
    /\ Interprets(OverfullPool)
    /\ Len(compilingChunk.constants) = UINT8_COUNT + 1
    /\ parser.panicMode
    /\ stderr = <<ErrorLine(Number(<<49>>, 1), TooManyConstantsMessage)>>

(***************************************************************************)
(* C9  Constant-pool cap.                                                  *)
(***************************************************************************)
\* C9 as the claim has it: at every point of every compilation the constant
\* pool of the chunk holds at most 256 constants.
C9_Original == Len(compilingChunk.constants) <= UINT8_COUNT

\* C9, amended: the constant pool holds more than 256 constants only in a
\* compilation that has already failed (hadError is set, so compile returns
\* false and interpret frees the chunk without running it); a chunk that
\* compile returns true for, and so every chunk that is run, holds at most
\* 256 constants.
C9_Amended ==
    /\ Len(compilingChunk.constants) > UINT8_COUNT =>
          (parser.hadError /\ pc \in {"compile", "compiled"})
    /\ (pc = "compiled" /\ ~parser.hadError) =>
          Len(compilingChunk.constants) <= UINT8_COUNT
    /\ pc \notin {"compile", "compiled", "run", "undefined"} =>
          compilingChunk.constants = <<>>

\* compile has returned, false, with more than 256 constants in the pool
C9_Witness ==
    /\ pc = "compiled"
    /\ parser.hadError
    /\ Len(compilingChunk.constants) > UINT8_COUNT

(***************************************************************************)
(* C10  Too many locals.                                                   *)
(***************************************************************************)
TooManyLocalsMessage == "Too many local variables in function."

\* the step is the declaration of a local variable while 256 locals are live
DeclaresBeyond ==
    /\ Running("varDeclaration", "call")
    /\ current.scopeDepth > 0
    /\ current.localCount = UINT8_COUNT

\* the name of local variable number n of the long sources
LocalName(n) == Identifier(<<120>> \o Digits(n), 1)

\* C10: the declaration of a local variable while 256 locals are live reports
\* "Too many local variables in function." (printed, at the name, unless an
\* earlier error has the parser in panic mode or the name is itself an
\* error), adds no local, and the compilation fails; in every state
\* localCount is at most 256.  A block of 256 declarations compiles without
\* error; in a block of more, each further declaration prints the error.
C10_TooManyLocals ==
    [][/\ DeclaresBeyond =>
             /\ current'.localCount = UINT8_COUNT
             /\ \A i \in 1..UINT8_COUNT :
                   current'.locals[i].name = current.locals[i].name
             /\ parser'.hadError
             /\ parser'.panicMode
             /\ (/\ Unsuppressed
                 /\ parser.current.type = "TOKEN_IDENTIFIER"
                 /\ LocalsNamed(parser.current) = {}) =>
                   stderr' = Append(stderr, ErrorLine(parser.current,
                                                      TooManyLocalsMessage))
       /\ StaysFailed
       /\ (~DeclaresBeyond => ~Prints(TooManyLocalsMessage))
       /\ (/\ current.localCount <= UINT8_COUNT
           /\ Len(current.locals) = current.localCount)'
       /\ ((pc = "compiled" /\ Interprets(FullLocals)) =>
             (~parser.hadError /\ stderr = <<>>))'
       /\ ((pc = "compiled" /\ Interprets(OverfullLocals)) =>
             /\ parser.hadError
             /\ stderr = [i \in 1..Beyond |->
                            ErrorLine(LocalName(UINT8_COUNT + i),
                                      TooManyLocalsMessage)])'
       /\ ((pc = "compiled" /\ Interprets(FullLocalsVarOne)) => parser.hadError)'
      ]_vars

\* the 257th local of a block has been refused, at its name
C10_Witness ==
    /\ pc = "compile"
    /\ Interprets(OverfullLocals)
    /\ current.localCount = UINT8_COUNT
    /\ parser.panicMode
    /\ stderr = <<ErrorLine(LocalName(UINT8_COUNT + 1), TooManyLocalsMessage)>>

(***************************************************************************)
(* C11  Chunk line mapping.                                                *)
(***************************************************************************)
\* the tokens of the text all stand on the line
OnLine(text, line) == \A i \in 1..Len(text) : text[i].line = line

\* C11 as the claim has it: for every offset o of a byte that writeChunk has
\* written to code, lines[o] is the line the byte was written with, so that
\* the line a runtime error prints, lines[ip - 1], is the line of the
\* instruction that failed.  Stated of the sources that stand on line 1,
\* every byte of which is written with line 1.
C11_LineMapping ==
    (source # NULL /\ OnLine(Texts[source], 1)) =>
        /\ \A o \in 0..(Len(compilingChunk.code) - 1) :
              compilingChunk.code[o + 1] # Uninit =>
                  Load(compilingChunk.lines, o, junk) = 1
        /\ \A i \in 1..Len(stderr) : stderr[i].at = "script" => stderr[i].line = 1

(***************************************************************************)
(* C12  writeChunk appends exactly one byte.                               *)
(***************************************************************************)
\* C12 as the claim has it: whatever the chunk holds (the empty chunk too)
\* and whatever the line, writeChunk(chunk, byte, line) raises count by
\* exactly 1, stores byte at the offset that count was, and leaves the bytes
\* before it as they were.  Stated of every chunk a compilation reaches.
C12_AppendsOneByte ==
    pc = "compile" =>
        \A byte \in {OpCode.OP_CONSTANT, OpCode.OP_RETURN}, line \in 1..2 :
            LET after == writeChunk(compilingChunk, byte, line, junk)
            IN  /\ after.count = compilingChunk.count + 1
                /\ InBounds(after.code, compilingChunk.count)
                /\ after.code[compilingChunk.count + 1] = byte
                /\ \A o \in 0..(compilingChunk.count - 1) :
                      after.code[o + 1] = compilingChunk.code[o + 1]

(***************************************************************************)
(* C13  Missing global.                                                    *)
(***************************************************************************)
\* the byte after the instruction at vm.ip
Operand == Load(compilingChunk.code, vm.ip + 1, junk)

\* run() is at opcode, whose operand is the index of a string constant
Names(opcode) ==
    /\ At({opcode})
    /\ InBounds(compilingChunk.code, vm.ip + 1)
    /\ Operand < Len(compilingChunk.constants)
    /\ IS_OBJ(compilingChunk.constants[Operand + 1])

\* the ObjString * that the instruction at vm.ip names
Named == compilingChunk.constants[Operand + 1].as

\* the globals of the table: the key and value of every live entry
Globals(table) ==
    {<<table.entries[i].key, table.entries[i].value>> : i \in LiveKeys(table)}

\* the table has a live entry for the key
Defined(table, key) == \E global \in Globals(table) : global[1] = key

UndefinedVariable == "Undefined variable '%s'."

\* C13: OP_GET_GLOBAL, and OP_SET_GLOBAL with a value on the stack, of a name
\* that has no live entry among the globals ends run() with
\* INTERPRET_RUNTIME_ERROR after "Undefined variable 'NAME'." is written to
\* stderr; the name has no live entry afterwards either, and every other
\* global is there with the value it had.
C13_MissingGlobal ==
    [][\A opcode \in {OpCode.OP_GET_GLOBAL, OpCode.OP_SET_GLOBAL} :
          (/\ Names(opcode)
           /\ ~Defined(tbl, Named)
           /\ (opcode = OpCode.OP_SET_GLOBAL => vm.stack # <<>>)) =>
              /\ pc' = Caller
              /\ result' = "INTERPRET_RUNTIME_ERROR"
              /\ Len(stderr') = Len(stderr) + 1
              /\ SubSeq(stderr', 1, Len(stderr)) = stderr
              /\ stderr'[Len(stderr')].message = UndefinedVariable
              /\ stderr'[Len(stderr')].lexeme = objects[Named].chars
              /\ stderr'[Len(stderr')].at = "script"
              /\ ~Defined(tbl', Named)
              /\ Globals(tbl') = Globals(tbl)
      ]_vars

\* at the REPL, after  var b = 1; a = 2;  has failed at its assignment,
\* print a;  has failed as well, and b is 1
C13_Witness ==
    /\ Len(history) = 2
    /\ Texts[history[1].source] = AssignLine
    /\ Texts[history[2].source] = PrintLine
    /\ \A i \in 1..2 :
          /\ history[i].result = "INTERPRET_RUNTIME_ERROR"
          /\ Len(history[i].stderr) = 1
          /\ history[i].stderr[1].message = UndefinedVariable
          /\ history[i].stderr[1].lexeme = <<97>>
    /\ \E global \in Globals(tbl) :
          /\ objects[global[1]].chars = <<98>>
          /\ global[2] = NUMBER_VAL(Double(1))

(***************************************************************************)
(* C14  Operand type checks.                                               *)
(***************************************************************************)
\* the operands of the instruction at vm.ip: the two values on top of the stack
Right == vm.stack[Len(vm.stack)]

Left == vm.stack[Len(vm.stack) - 1]

\* the step ends run() with INTERPRET_RUNTIME_ERROR after it has written the
\* message to stderr
Raises(message) ==
    /\ pc' = Caller
    /\ result' = "INTERPRET_RUNTIME_ERROR"
    /\ Len(stderr') = Len(stderr) + 1
    /\ stderr'[Len(stderr')].message = message
    /\ stderr'[Len(stderr')].at = "script"

\* the step leaves run() in its loop, with a value for the `operands` values
\* that were on top of the stack and the rest of the stack as it was
Gives(operands, Type(_)) ==
    /\ pc' = "run"
    /\ Len(vm'.stack) = Len(vm.stack) - operands + 1
    /\ SubSeq(vm'.stack, 1, Len(vm.stack) - operands)
         = SubSeq(vm.stack, 1, Len(vm.stack) - operands)
    /\ Type(vm'.stack[Len(vm'.stack)])
    /\ stderr' = stderr

\* 1 + "a";
MixedScript == <<Operands[1], Operators[1], Operands[2], Semicolon>>

\* C14: with two operands on the stack, OP_SUBTRACT, OP_MULTIPLY and OP_DIVIDE
\* give a number and OP_GREATER and OP_LESS a Boolean when both operands are
\* numbers, and otherwise end run() with INTERPRET_RUNTIME_ERROR and
\* "Operands must be numbers."; OP_ADD gives a number for two numbers and a
\* string for two strings, and otherwise ends run() with
\* INTERPRET_RUNTIME_ERROR and "Operands must be two numbers or two strings.";
\* with an operand on the stack, OP_NEGATE gives a number for a number and
\* otherwise ends run() with INTERPRET_RUNTIME_ERROR and "Operand must be a
\* number."
C14_OperandTypes ==
    [][/\ (/\ At({OpCode.OP_SUBTRACT, OpCode.OP_MULTIPLY, OpCode.OP_DIVIDE})
           /\ Len(vm.stack) >= 2) =>
              IF IS_NUMBER(Left) /\ IS_NUMBER(Right) THEN Gives(2, IS_NUMBER)
              ELSE Raises("Operands must be numbers.")
       /\ (/\ At({OpCode.OP_GREATER, OpCode.OP_LESS})
           /\ Len(vm.stack) >= 2) =>
              IF IS_NUMBER(Left) /\ IS_NUMBER(Right) THEN Gives(2, IS_BOOL)
              ELSE Raises("Operands must be numbers.")
       /\ (/\ At({OpCode.OP_ADD})
           /\ Len(vm.stack) >= 2) =>
              IF IS_NUMBER(Left) /\ IS_NUMBER(Right) THEN Gives(2, IS_NUMBER)
              ELSE IF IS_STRING(objects, Left) /\ IS_STRING(objects, Right)
                   THEN Gives(2, LAMBDA value : IS_STRING(objects', value))
              ELSE Raises("Operands must be two numbers or two strings.")
       /\ (/\ At({OpCode.OP_NEGATE})
           /\ Len(vm.stack) >= 1) =>
              IF IS_NUMBER(Right) THEN Gives(1, IS_NUMBER)
              ELSE Raises("Operand must be a number.")
      ]_vars

\* the file  1 + "a";  has been run: a runtime error, and exit code 70
C14_Witness ==
    /\ pc = "exit"
    /\ exitCode = 70
    /\ Len(history) = 1
    /\ Texts[history[1].source] = MixedScript
    /\ history[1].result = "INTERPRET_RUNTIME_ERROR"
    /\ Len(history[1].stderr) = 1
    /\ history[1].stderr[1].message = "Operands must be two numbers or two strings."

(***************************************************************************)
(* C15  Runtime error leaves a clean stack.                                *)
(***************************************************************************)
\* C15 as the claim has it: when run() has returned INTERPRET_RUNTIME_ERROR
\* the value stack is empty, and whatever the lines before it came to, every
\* call of interpret finds the value stack empty.
C15_CleanStack ==
    /\ (pc = Caller /\ result = "INTERPRET_RUNTIME_ERROR") => vm.stack = <<>>
    /\ pc = "interpret" => vm.stack = <<>>

(***************************************************************************)
(* C16  Compile errors prevent execution.                                  *)
(***************************************************************************)
\* C16: when compile has returned, it returns true (parser.hadError is
\* false) if and only if the call has written no error to stderr; and when
\* it returns false, interpret returns INTERPRET_COMPILE_ERROR in its next
\* step, without a step of run(), and since interpret was called nothing has
\* been written to stdout and the globals and the value stack are what they
\* were.
C16_CompileErrors ==
    [][/\ (pc = "compiled" =>
              (~parser.hadError <=> Len(stderr) = called.stderr))'
       /\ (pc = "compiled" /\ parser.hadError) =>
              /\ pc' = Caller
              /\ result' = "INTERPRET_COMPILE_ERROR"
              /\ Len(stdout') = called.stdout
              /\ tbl' = called.globals
              /\ vm'.stack = called.stack
              /\ called' = called
      ]_vars

\* at the REPL, after  var a = 1;  the line  1 + ;  has been refused: nothing
\* written to stdout, and a is still 1
C16_Witness ==
    /\ pc = "repl"
    /\ result = "INTERPRET_COMPILE_ERROR"
    /\ Len(history) = 2
    /\ Texts[history[1].source] = VarLine
    /\ history[1].result = "INTERPRET_OK"
    /\ Texts[history[2].source] = BadLine
    /\ history[2].result = "INTERPRET_COMPILE_ERROR"
    /\ history[2].stdout = <<>>
    /\ history[2].stderr # <<>>
    /\ \E global \in Globals(tbl) :
          /\ objects[global[1]].chars = <<97>>
          /\ global[2] = NUMBER_VAL(Double(1))

(***************************************************************************)
(* C17  Stack overflow is detected.                                        *)
(***************************************************************************)
\* writeChunk has put the bytes of the chunk one after the other, none
\* skipped (what C12 asks of it)
Contiguous(ch) ==
    /\ ch.count <= Len(ch.code)
    /\ \A o \in 0..(ch.count - 1) : ch.code[o + 1] # Uninit

\* C17 as the claim has it: run() never pushes a value onto a stack that
\* holds STACK_MAX values already, so that vm.stackTop never leaves
\* vm.stack.  Stated of the programs whose code is laid out byte after byte,
\* which run() decodes as the compiler emitted it.
C17_OverflowDetected ==
    Contiguous(compilingChunk) =>
        /\ Len(vm.stack) <= STACK_MAX
        /\ vm.undefined # "push on a full stack"

(***************************************************************************)
(* C18  Compile-then-run determinism.                                      *)
(***************************************************************************)
\* of what has been written to stdout, the lines of print statements: not
\* the listing of DEBUG_PRINT_CODE, not the trace of DEBUG_TRACE_EXECUTION
PrintOutput(out) ==
    SelectSeq(out, LAMBDA line : line \notin {TraceLine, disassembleChunk(initChunk, "code")})

\* two calls of interpret came to the same: result code, print outputs and
\* error outputs
SameOutcome(one, other) ==
    /\ one.result = other.result
    /\ PrintOutput(one.stdout) = PrintOutput(other.stdout)
    /\ one.stderr = other.stderr

Printed(out) == PrintOutput(SubSeq(out, called.stdout + 1, Len(out)))

\* what the call of interpret at work has written to stderr
Reported(err) == SubSeq(err, called.stderr + 1, Len(err))

\* the globals by name
GlobalsByName(heap, table) ==
    {<<heap[global[1]].chars, global[2]>> : global \in Globals(table)}

\* the side effects of the call at work: its print outputs, the globals, and
\* the messages of its error outputs
Effects ==
    [printed |-> Printed(stdout), globals |-> GlobalsByName(objects, tbl),
     reported |-> [i \in 1..Len(Reported(stderr)) |-> Reported(stderr)[i].message]]

\* the side effects of  print 1; var a = 2; print a; print b; print 3;  one
\* after the other, from none to the runtime error at  print b;
OrderEffects ==
    LET a == <<<<97>>, NUMBER_VAL(Double(2))>>
    IN  <<[printed |-> <<>>, globals |-> {}, reported |-> <<>>],
          [printed |-> <<"1\n">>, globals |-> {}, reported |-> <<>>],
          [printed |-> <<"1\n">>, globals |-> {a}, reported |-> <<>>],
          [printed |-> <<"1\n", "2\n">>, globals |-> {a}, reported |-> <<>>],
          [printed |-> <<"1\n", "2\n">>, globals |-> {a},
           reported |-> <<UndefinedVariable>>]>>

\* C19: a call of interpret has its side effects in run() alone, none while
\* it compiles; run() goes through the code forwards, an instruction a step,
\* and a step has one side effect at most: a print output, a write to the
\* globals, or the output of a runtime error, with which run() returns, so
\* that the call has no side effect after it.  Where writeChunk has laid out
\* the code as it was emitted, the script
\*   print 1; var a = 2; print a; print b; print 3;
\* has its side effects in the order of its statements, up to the runtime
\* error at  print b;  and none after it.
C19_ProgramOrder ==
    [][/\ pc \in {"interpret", "compile", "compiled"} =>
              /\ PrintOutput(stdout') = PrintOutput(stdout)
              /\ tbl' = tbl
              /\ \A i \in 1..Len(stderr') : stderr'[i].at = "script" => i <= Len(stderr)
       /\ pc = "run" =>
              LET prints == PrintOutput(stdout') # PrintOutput(stdout)
                  writes == GlobalsByName(objects', tbl') # GlobalsByName(objects, tbl)
                  raises == stderr' # stderr
              IN  /\ pc' = "run" => vm'.ip > vm.ip
                  /\ ~(prints /\ writes)
                  /\ raises =>
                        /\ ~prints
                        /\ ~writes
                        /\ pc' = Caller
                        /\ result' = "INTERPRET_RUNTIME_ERROR"
       /\ (/\ Interprets(OrderScript)
           /\ junk = 1
           /\ pc \in {"compile", "compiled", "run"}) =>
              /\ \E k \in 1..Len(OrderEffects) : Effects' = OrderEffects[k]
              /\ \A k \in 1..Len(OrderEffects) :
                    Effects = OrderEffects[k] =>
                        Effects' \in {OrderEffects[k],
                                      OrderEffects[IF k < Len(OrderEffects)
                                                   THEN k + 1 ELSE k]}
      ]_vars

\* the file  print 1; var a = 2; print a; print b; print 3;  has been run:
\* 1 and 2 printed, a defined, the error at b reported, and 3 not printed
C19_Witness ==
    /\ pc = "exit"
    /\ exitCode = 70
    /\ Interprets(OrderScript)
    /\ Effects = OrderEffects[Len(OrderEffects)]

(***************************************************************************)
(* C20  Standard output of a file run.                                     *)
(***************************************************************************)
\* C20 as the claim has it: when the run of a file has come to its exit,
\* stdout holds the lines of the print statements executed and nothing else
\* (no greeting, no listing of the code, no trace of the instructions), and
\* for the file  print 1 + 2;  it holds exactly "3\n" and the exit code is 0.
C20_StdoutOfFile ==
    (pc = "exit" /\ argc = 2 /\ file.readable) =>
        /\ \A i \in 1..Len(stdout) :
              stdout[i] \notin {"Hello\n", TraceLine, disassembleChunk(initChunk, "code")}
        /\ Interprets(SumScript) => (stdout = <<"3\n">> /\ exitCode = 0)

(***************************************************************************)
(* C21  Table count accounting.                                            *)
(***************************************************************************)
\* C21: in every table reachable by initTable, tableSet, tableDelete,
\* tableAddAll, freeTable and the growth inside tableSet, count is the number
\* of live entries plus the number of tombstones.
C21_CountAccounting ==
    tbl.count = Cardinality(LiveKeys(tbl)) + Cardinality(Tombstones(tbl))

\* A table that has grown to 16 slots (the growth dropped the tombstones it
\* met) and since then had two keys deleted, four keys still being live.
C21_Witness ==
    /\ tbl.capacity = 2 * GROW_CAPACITY(0)
    /\ Cardinality(Tombstones(tbl)) >= 2
    /\ Cardinality(LiveKeys(tbl)) >= 4
    /\ tbl.count < KeyCount

(***************************************************************************)
(* C22  Probe-chain reachability.                                          *)
(***************************************************************************)
\* the C index of the slot at which the probe for the key of slot i starts
Home(t, i) == HashMod(objects[t.entries[i].key].hash, t.capacity)

\* whether the linear probe that is at the C index `index`, having passed
\* `steps` slots, comes to slot i before it comes to an empty slot
RECURSIVE ReachedFrom(_, _, _, _)
ReachedFrom(t, i, index, steps) ==
    IF steps >= t.capacity THEN FALSE
    ELSE IF index + 1 = i THEN TRUE
    ELSE IF t.entries[index + 1].key = NULL /\ IS_NIL(t.entries[index + 1].value)
         THEN FALSE
         ELSE ReachedFrom(t, i, (index + 1) % t.capacity, steps + 1)

\* C22: in every reachable table, the linear probe from slot hash mod capacity
\* reaches each live entry before any empty non-tombstone slot, and no key has
\* more than one live entry.
C22_ProbeChain ==
    /\ \A i \in LiveKeys(tbl) : ReachedFrom(tbl, i, Home(tbl, i), 0)
    /\ \A i, j \in LiveKeys(tbl) :
          tbl.entries[i].key = tbl.entries[j].key => i = j

\* A live entry away from its home slot whose home slot holds a tombstone: the
\* probe for it has to pass the tombstone.  Another key is live as well.
C22_Witness ==
    /\ \E i \in Displaced(tbl) : Home(tbl, i) + 1 \in Tombstones(tbl)
    /\ Cardinality(LiveKeys(tbl)) >= 2

(***************************************************************************)
(* C23  Tombstones.                                                        *)
(***************************************************************************)
\* the slot of the live entry of `key`, 0 when the key has none
SlotOf(t, key) ==
    IF \E i \in LiveKeys(t) : t.entries[i].key = key
    THEN CHOOSE i \in LiveKeys(t) : t.entries[i].key = key
    ELSE 0

\* the first tombstone the probe comes to from the C index `index` on, before
\* any empty slot; 0 when there is none
RECURSIVE FirstTombstone(_, _, _)
FirstTombstone(t, index, steps) ==
    IF steps >= t.capacity THEN 0
    ELSE LET entry == t.entries[index + 1]
         IN  IF entry.key = NULL /\ IS_NIL(entry.value) THEN 0
             ELSE IF entry.key = NULL THEN index + 1
             ELSE FirstTombstone(t, (index + 1) % t.capacity, steps + 1)

\* the first tombstone on the probe path of `key`, 0 when it passes none
PathTombstone(t, key) ==
    IF t.capacity = 0 THEN 0
    ELSE FirstTombstone(t, HashMod(objects[key].hash, t.capacity), 0)

\* whether the step is a call of tableSet that left `key` live (told cheaply,
\* from what the call recorded, before the call is worked out again)
SetsKey(key) ==
    /\ hung' \/ \E c \in calls' : c.op = "tableSet"
    /\ hung' \/ SlotOf(tbl', key) # 0

\* the same for a call of tableDelete, which leaves the key not live
DeletesKey(key) ==
    /\ hung' \/ \E c \in calls' : c.op = "tableDelete"
    /\ hung' \/ SlotOf(tbl', key) = 0

\* tableDelete of a live key: its entry becomes a tombstone, nothing else and
\* not count changes
DeleteLeavesTombstone ==
    \A key \in Keys :
        DeletesKey(key) /\ SlotOf(tbl, key) # 0 /\ TableDelete(key)
            => /\ tbl' = [tbl EXCEPT !.entries[SlotOf(tbl, key)] =
                                        [key |-> NULL, value |-> BOOL_VAL(TRUE)]]
               /\ tbl'.count = tbl.count
               /\ \A c \in calls' : c.returned

\* tableSet stores the key in the first tombstone of its probe path, returns
\* true and changes nothing else
SetReusesTombstone(key, value) ==
    /\ tbl' = [tbl EXCEPT !.entries[PathTombstone(tbl, key)] =
                             [key |-> key, value |-> value]]
    /\ tbl'.count = tbl.count
    /\ \A c \in calls' : c.returned

\* tableSet grows the table: no tombstone is left, the key is live in a slot
\* that was empty, and count is the number of the live entries
SetAfterGrowth(key, value) ==
    /\ tbl'.capacity = GROW_CAPACITY(tbl.capacity)
    /\ Tombstones(tbl') = {}
    /\ SlotOf(tbl', key) # 0
    /\ tbl'.count = Cardinality(LiveKeys(tbl)) + 1
    /\ \A c \in calls' : c.returned

\* C23 as stated: tableDelete of a live key replaces its entry by a tombstone
\* (key absent, value true) and leaves count unchanged; every tableSet of a key
\* with no live entry whose probe path passes a tombstone stores the key in
\* the first tombstone of that path, returns true and leaves count unchanged.
C23_Original ==
    [][/\ DeleteLeavesTombstone
       /\ \A key \in Keys, value \in TableValues :
             SetsKey(key) /\ SlotOf(tbl, key) = 0
                          /\ PathTombstone(tbl, key) # 0 /\ TableSet(key, value)
                 => SetReusesTombstone(key, value)]_vars

\* C23 amended: the same for tableDelete; a tableSet of a key with no live
\* entry whose probe path passes a tombstone reuses the first tombstone of the
\* path, returns true and leaves count unchanged when the table does not have
\* to grow (count + 1 <= 0.75 * capacity); when it has to grow, the growth
\* drops the tombstones first, and the key goes to an empty slot of the new
\* array, tableSet returns true and count becomes the live entries plus one.
C23_Amended ==
    [][/\ DeleteLeavesTombstone
       /\ \A key \in Keys, value \in TableValues :
             SetsKey(key) /\ SlotOf(tbl, key) = 0
                          /\ PathTombstone(tbl, key) # 0 /\ TableSet(key, value)
                 => IF 4 * (tbl.count + 1) <= 3 * tbl.capacity
                    THEN SetReusesTombstone(key, value)
                    ELSE SetAfterGrowth(key, value)]_vars

\* The last call was a tableSet that returned true and left count and capacity
\* as they were (the key went into a tombstone), another tombstone remaining.
C23_Witness ==
    /\ \E c \in calls : /\ c.op = "tableSet"
                        /\ c.returned
                        /\ c.count = tbl.count
                        /\ c.capacity = tbl.capacity
    /\ Tombstones(tbl) # {}
    /\ LiveKeys(tbl) # {}

(***************************************************************************)
(* C24  Growth preserves live entries and drops tombstones.                *)
(***************************************************************************)
\* the table in the middle of tableSet, right after adjustCapacity returned
Grown(t) == adjustCapacity(objects, t, GROW_CAPACITY(t.capacity))

\* max(8, 2 * capacity)
GrownCapacity(capacity) == IF 2 * capacity > 8 THEN 2 * capacity ELSE 8

\* every key live in t is live in g with the same value
KeepsLive(t, g) ==
    \A i \in LiveKeys(t) :
        /\ SlotOf(g, t.entries[i].key) # 0
        /\ g.entries[SlotOf(g, t.entries[i].key)].value = t.entries[i].value

\* C24: tableSet grows the table exactly when count + 1 > 0.75 * capacity, to
\* max(8, 2 * capacity) slots; right after the growth the table has no
\* tombstone, count is the number of its live entries, and every key that was
\* live is live with the same value (tableSet then stores its key there).
C24_Growth ==
    [][\A key \in Keys, value \in TableValues :
          SetsKey(key) /\ TableSet(key, value)
              => IF 4 * (tbl.count + 1) > 3 * tbl.capacity
                 THEN LET g == Grown(tbl)
                      IN  /\ tbl'.capacity = GrownCapacity(tbl.capacity)
                          /\ g.capacity = GrownCapacity(tbl.capacity)
                          /\ Len(g.entries) = GrownCapacity(tbl.capacity)
                          /\ Tombstones(g) = {}
                          /\ g.count = Cardinality(LiveKeys(g))
                          /\ Cardinality(LiveKeys(g)) = Cardinality(LiveKeys(tbl))
                          /\ KeepsLive(tbl, g)
                          /\ tbl'.count = g.count + (IF SlotOf(tbl, key) = 0
                                                     THEN 1 ELSE 0)
                 ELSE tbl'.capacity = tbl.capacity]_vars

\* The last call was a tableSet that grew the table from 8 to 16 slots and
\* dropped at least two tombstones: count fell although a key was added.
C24_Witness ==
    /\ \E c \in calls : /\ c.op = "tableSet"
                        /\ c.returned
                        /\ c.capacity = GROW_CAPACITY(0)
                        /\ tbl.count < c.count
    /\ tbl.capacity = 2 * GROW_CAPACITY(0)
    /\ Tombstones(tbl) = {}

(***************************************************************************)
(* C25  Panic-mode suppression.                                            *)
(***************************************************************************)
\* the step is the end of declaration(), the one place that calls synchronize
Synchronizes == Running("declaration", "return") /\ parser.panicMode

\* C25: during a call of compile, a step that begins with panicMode set and
\* does not call synchronize prints nothing and leaves panicMode set; no step
\* prints more than one message, and the message it prints sets panicMode and
\* hadError (after synchronize cleared panicMode, the next error is printed
\* and the ones after it are not); and hadError, once set, stays set in every
\* step of the call, up to its return.
C25_PanicMode ==
    [][/\ pc \in {"interpret", "compile"}
            => /\ Len(stderr') <= Len(stderr) + 1
               /\ SubSeq(stderr', 1, Len(stderr)) = stderr
               /\ stderr' # stderr => parser'.panicMode /\ parser'.hadError
       /\ (pc = "compile" /\ parser.panicMode /\ ~Synchronizes)
            => stderr' = stderr /\ parser'.panicMode
       /\ (pc = "compile" /\ parser.hadError)
            => parser'.hadError /\ pc' \in {"compile", "compiled"}]_vars

\* `1 + ;` at the end of its expression statement: "Expect expression." was
\* printed at the `;`, and the consume that did not find a `;` before the end
\* of the text printed nothing, panicMode being set.
C25_Witness ==
    /\ Interprets(BadLine)
    /\ Running("declaration", "return")
    /\ parser.panicMode
    /\ parser.hadError
    /\ parser.current.type = "TOKEN_EOF"
    /\ Len(stderr) = called.stderr + 1
    /\ stderr[Len(stderr)].message = "Expect expression."

(***************************************************************************)
(* C26  Synchronization.                                                   *)
(***************************************************************************)
\* where synchronize stops: a `;` was just consumed, or the current token
\* begins a statement or is the end of the text
SyncPoint(p) ==
    \/ p.previous.type = "TOKEN_SEMICOLON"
    \/ p.current.type \in {"TOKEN_CLASS", "TOKEN_FUN", "TOKEN_VAR", "TOKEN_FOR",
                           "TOKEN_IF", "TOKEN_WHILE", "TOKEN_PRINT",
                           "TOKEN_RETURN", "TOKEN_EOF"}

\* a declaration that ends with panicMode set discards tokens up to the first
\* point at which synchronize stops, and none when it is at one
StopsAtSyncPoint ==
    (Running("declaration", "return") /\ parser.panicMode)
        => /\ SyncPoint(parser')
           /\ SyncPoint(parser) => parser' = [parser EXCEPT !.panicMode = FALSE]
                                   /\ scanner' = scanner

\* C26: whenever a declaration finishes with panicMode set, synchronize
\* discards tokens and stops only when the token consumed last is `;` or the
\* current token is one of class, fun, var, for, if, while, print, return or
\* EOF; and panicMode is false whenever declaration() returns.
C26_Synchronization ==
    [][/\ StopsAtSyncPoint
       /\ Running("declaration", "return") => ~parser'.panicMode]_vars

(***************************************************************************)
(* C27  Scope exit.                                                        *)
(***************************************************************************)
\* n times OP_POP
Pops(n) == [i \in 1..n |-> OpCode.OP_POP]

\* C27: when a block ends, endScope emits exactly one OP_POP for each local
\* declared in the block and removes exactly those locals, the last declared
\* first: the locals, localCount and scopeDepth are after the block what they
\* were before it, and every local that remains has a depth <= scopeDepth.
C27_ScopeExit ==
    [][Running("statement", "return")
          => /\ current'.scopeDepth = Top.entered.scopeDepth
             /\ current'.localCount = Top.entered.localCount
             /\ current'.locals = Top.entered.locals
             /\ current.localCount >= Top.entered.localCount
             /\ Emitted(compilingChunk')
                   = Emitted(compilingChunk)
                        \o Pops(current.localCount - Top.entered.localCount)
             /\ \A i \in 1..current'.localCount :
                   current'.locals[i].depth <= current'.scopeDepth]_vars

(***************************************************************************)
(* C28  Redeclaration.                                                     *)
(***************************************************************************)
\* the activations of statement() that are in their block
BlockFrames == {k \in 1..Len(cstack) : cstack[k].fn = "statement" /\ cstack[k].at = "return"}

\* the locals declared in the innermost block that is open, by their slot + 1
OwnLocals ==
    IF BlockFrames = {} THEN {}
    ELSE (cstack[Greatest(BlockFrames)].entered.localCount + 1)..current.localCount

RedeclarationMessage == "Already a variable with this name in this scope."

\* the step is a var declaration in a block, at the identifier it declares
DeclaresLocal ==
    /\ Running("varDeclaration", "call")
    /\ current.scopeDepth > 0
    /\ parser.current.type = "TOKEN_IDENTIFIER"

\* a local of the innermost open block has the name that is declared
Redeclares ==
    \E i \in OwnLocals : current.locals[i].name.lexeme = parser.current.lexeme

\* C28: declaring a local whose identifier is that of a local already declared
\* in the same, innermost open, scope reports "Already a variable with this
\* name in this scope."; an identifier that only locals of enclosing scopes
\* have reports no redeclaration error.
C28_Redeclaration ==
    [][DeclaresLocal
          => IF Redeclares
             THEN Reports(parser.current, RedeclarationMessage)
             ELSE \A k \in (Len(stderr) + 1)..Len(stderr') :
                      stderr'[k].message # RedeclarationMessage]_vars

(***************************************************************************)
(* C29  Local variable access.                                             *)
(***************************************************************************)
\* parsePrecedence is at an identifier that a local variable bears
CompilesLocal ==
    /\ Running("parsePrecedence", "call")
    /\ parser.current.type = "TOKEN_IDENTIFIER"
    /\ LocalsNamed(parser.current) # {}

\* the identifier is read: OP_GET_LOCAL and the slot of the local are emitted;
\* it is assigned to: OP_SET_LOCAL and the slot are kept for the end of
\* namedVariable, which emits them after the expression assigned
CompilesToSlot ==
    /\ CompilesLocal
          => \/ Emitted(compilingChunk')
                   = Emitted(compilingChunk)
                        \o <<OpCode.OP_GET_LOCAL, Innermost(parser.current) - 1>>
             \/ /\ cstack'[Len(cstack') - 1].fn = "namedVariable"
                /\ cstack'[Len(cstack') - 1].setOp = OpCode.OP_SET_LOCAL
                /\ cstack'[Len(cstack') - 1].arg = Innermost(parser.current) - 1
    /\ Running("namedVariable", "return")
          => Emitted(compilingChunk')
                = Emitted(compilingChunk) \o <<Top.setOp, Top.arg>>

\* run() is at opcode, whose operand is a slot of the stack in use
AtSlot(opcode) ==
    /\ At({opcode})
    /\ InBounds(compilingChunk.code, vm.ip + 1)
    /\ Operand \in 0..(Len(vm.stack) - 1)

\* C29 as the claim has it: an identifier that resolves to a local compiles to
\* OP_GET_LOCAL / OP_SET_LOCAL with the slot of the local; run() at
\* OP_GET_LOCAL slot pushes stack[slot], at OP_SET_LOCAL slot stores peek(0)
\* in stack[slot] and pops nothing, and either consumes its one operand byte.
C29_LocalAccess ==
    [][/\ CompilesToSlot
       /\ AtSlot(OpCode.OP_GET_LOCAL)
             => /\ vm'.stack = Append(vm.stack, vm.stack[Operand + 1])
                /\ vm'.ip = vm.ip + 2
       /\ AtSlot(OpCode.OP_SET_LOCAL)
             => /\ vm'.stack = [vm.stack EXCEPT ![Operand + 1] = peek(M, 0)]
                /\ vm'.ip = vm.ip + 2]_vars

(***************************************************************************)
(* C30  Compilation terminates.                                            *)
(***************************************************************************)
\* no token of the source costs compile more than TurnsPerToken steps
TurnsPerToken == 8

\* the steps compile takes at most on the source it is given: so many for
\* each token, one to enter and one to return
MaxTurns == TurnsPerToken * Len(Texts[source]) + 2

\* compile, not yet returned, has a step to take: the function that runs
\* stands at a point one of the steps goes on from
GoesOn ==
    \/ Running("compile", "call")
    \/ Running("declaration", "call")
    \/ Running("declaration", "return")
    \/ Running("varDeclaration", "call")
    \/ Running("varDeclaration", "return")
    \/ Running("statement", "call")
    \/ Running("statement", "return")
    \/ Running("printStatement", "return")
    \/ Running("expressionStatement", "return")
    \/ Running("block", "call")
    \/ /\ Running("parsePrecedence", "call")
       /\ PrefixRule \in {"NULL", "number", "string", "literal", "grouping",
                          "unary", "variable"}
    \/ Running("parsePrecedence", "loop")
    \/ Running("grouping", "return")
    \/ Running("unary", "return")
    \/ Running("namedVariable", "return")
    \/ Running("binary", "return")

\* the number of operand bytes that follow the opcode
OperandBytes(opcode) ==
    IF opcode \in {OpCode.OP_CONSTANT, OpCode.OP_GET_LOCAL, OpCode.OP_SET_LOCAL,
                   OpCode.OP_GET_GLOBAL, OpCode.OP_DEFINE_GLOBAL,
                   OpCode.OP_SET_GLOBAL}
    THEN 1 ELSE 0

\* where the OP_RETURN instructions of a code begin, the code decoded from
\* its byte i on
RECURSIVE ReturnsFrom(_, _)
ReturnsFrom(bytes, i) ==
    IF i > Len(bytes) THEN {}
    ELSE (IF bytes[i] = OpCode.OP_RETURN THEN {i} ELSE {})
             \cup ReturnsFrom(bytes, i + 1 + OperandBytes(bytes[i]))

\* the chunk holds one OP_RETURN instruction, the last of its instructions,
\* and the byte is the last of the chunk, code[count - 1]
OneReturnLast ==
    /\ ReturnsFrom(Emitted(compilingChunk), 1) = {Len(Emitted(compilingChunk))}
    /\ compilingChunk.count >= 1
    /\ Load(compilingChunk.code, compilingChunk.count - 1, Uninit) = OpCode.OP_RETURN

\* a call of declaration() is only made before the end of the source, and
\* when it returns parser.current stands further on in the source
DeclarationConsumes ==
    /\ Running("declaration", "call") => parser.current.type # "TOKEN_EOF"
    /\ Running("declaration", "return")
          => \E d \in {IF parser.panicMode THEN synchronize(C) ELSE C} :
                 (IF d.parser.current.type = "TOKEN_EOF"
                  THEN Len(Texts[source]) + 1 ELSE d.scanner - 1) > Top.position

\* C30: every call of compile returns: as long as it has not, it has a step
\* to take, and it has taken no more than MaxTurns of them, a number the
\* length of the source fixes; every call of declaration(), made while the
\* current token is not the TOKEN_EOF, consumes at least one token; and the
\* chunk compile leaves holds exactly one OP_RETURN instruction, its last.
C30_Terminates ==
    /\ pc = "compile" => GoesOn /\ turns < MaxTurns /\ DeclarationConsumes
    /\ pc = "compiled" => turns <= MaxTurns /\ OneReturnLast

(***************************************************************************)
(* C31  Execution stays inside the chunk.                                  *)
(***************************************************************************)
\* the offsets of the chunk's code that writeChunk has written a byte to
Written(ch) ==
    {o \in 0..(ch.count - 1) : InBounds(ch.code, o) /\ ch.code[o + 1] # Uninit}

\* which of the bytes emitted the byte at offset o is, counted from 1
EmittedAt(ch, o) == Cardinality({w \in Written(ch) : w <= o})

\* which of the bytes of a code were emitted as opcodes, the code decoded
\* from its byte i on
RECURSIVE OpcodesFrom(_, _)
OpcodesFrom(bytes, i) ==
    IF i > Len(bytes) THEN {}
    ELSE {i} \cup OpcodesFrom(bytes, i + 1 + OperandBytes(bytes[i]))

\* the instructions whose operand is an index into the constants
ConstantOps ==
    {OpCode.OP_CONSTANT, OpCode.OP_GET_GLOBAL, OpCode.OP_DEFINE_GLOBAL,
     OpCode.OP_SET_GLOBAL}

\* run() is about to read, at vm.ip, a byte that the compiler emitted as an
\* opcode, and the operand of an instruction that takes a constant is a
\* written byte that indexes a constant of the chunk
DecodesOpcode ==
    /\ vm.ip \in Written(compilingChunk)
    /\ EmittedAt(compilingChunk, vm.ip) \in OpcodesFrom(Emitted(compilingChunk), 1)
    /\ compilingChunk.code[vm.ip + 1] \in ConstantOps
          => /\ vm.ip + 1 \in Written(compilingChunk)
             /\ compilingChunk.code[vm.ip + 2] < Len(compilingChunk.constants)

\* C31: run(), called on the chunk of a successful compile, returns
\* INTERPRET_OK or INTERPRET_RUNTIME_ERROR: it never leaves the behaviour the
\* language defines and never hangs, and before every turn of its loop vm.ip
\* is the offset of a written byte of the code, one the compiler emitted as
\* an opcode, whose constant operand indexes an existing constant.
C31_InsideChunk ==
    /\ pc # "undefined"
    /\ pc = "run" => ~hung /\ DecodesOpcode

(***************************************************************************)
(* C32  Stack balance.                                                     *)
(***************************************************************************)
\* what the machine is left as when a pop or a peek reads a slot below
\* vm.stack
BelowBase == {"pop of an empty stack", "read below the stack"}

\* C32: in a call of interpret that began with an empty value stack, run()
\* never pops or peeks below the base of the stack, and the stack is empty
\* whenever run() is about to execute OP_RETURN.
C32_StackBalance ==
    called.stack = <<>> =>
        /\ pc = "undefined" => vm.undefined \notin BelowBase
        /\ At({OpCode.OP_RETURN}) => vm.stack = <<>>

(***************************************************************************)
(* SpecProbe: a Table under any sequence of tableSet and tableDelete, with *)
(* as many keys as the smallest array has slots: the first NumProbeKeys    *)
(* strings of the corpus, interned as in SpecTable.                        *)
(***************************************************************************)
ProbeKeys ==
    1..(IF NumProbeKeys < Len(KeyCorpus) THEN NumProbeKeys ELSE Len(KeyCorpus))

InitProbe ==
    /\ \E h \in {InternAll(Cardinality(ProbeKeys))} :
          /\ objects = h.objects
          /\ strings = h.strings
    /\ found = FALSE
    /\ calls = {}
    /\ hung = FALSE
    /\ tbl = initTable
    /\ tblFrom = initTable
    /\ shadow = [k \in ProbeKeys |-> Absent]
    /\ ProgIdle

NextProbe ==
    \/ \E key \in ProbeKeys : TableSet(key, BOOL_VAL(TRUE))
    \/ \E key \in ProbeKeys : TableDelete(key)

SpecProbe == InitProbe /\ [][NextProbe]_vars

(***************************************************************************)
(* C33  Probing terminates.                                                *)
(***************************************************************************)
\* the table has a slot that is empty and no tombstone
HasEmpty(t) == \E i \in 1..t.capacity : t.entries[i] = EmptyEntry

\* the table that tableSet hands to findEntry, when it is called on t
SetsInto(t) == IF OverLoad(t.count, t.capacity) THEN Grown(t) ELSE t

\* no probe of the table runs through all its slots: findEntry for every
\* string of the heap, tableFindString for the bytes of every string of the
\* heap and of the corpus
ProbesEnd(t) ==
    /\ \A key \in 1..Len(objects) : findEntry(objects, t.entries, t.capacity, key) # -2
    /\ \A chars \in Contents \cup {objects[o].chars : o \in 1..Len(objects)} :
          tableFindString(objects, t, chars, Len(chars),
                          hashString(chars, Len(chars))) # -2

\* a table that findEntry or tableFindString may be called on
Probed(t) ==
    /\ t.capacity > 0
    /\ HasEmpty(t)
    /\ ProbesEnd(t)

\* C33: no call has hung; every table with count > 0, which is what tableGet,
\* tableDelete and tableFindString probe, and every table as tableSet probes
\* it, after its load test and the growth that may follow, has capacity > 0
\* and a slot that is empty and no tombstone, and every probe of it ends
\* within capacity steps.
C33_ProbingTerminates ==
    /\ ~hung
    /\ \A t \in {tbl, tblFrom, strings} :
          /\ t.count > 0 => Probed(t)
          /\ Probed(SetsInto(t))

\* a table as full as the load test lets it get, tombstones among its
\* entries, left so by a tableSet that filled its last never used slot but
\* two
C33_Witness ==
    /\ tbl.capacity = 8
    /\ tbl.count = 6
    /\ Cardinality(Tombstones(tbl)) = 2
    /\ Cardinality(LiveKeys(tbl)) = 4
    /\ \E c \in calls : c.op = "tableSet" /\ c.returned /\ c.count = 5
    /\ ~hung

====
